---- MODULE Spec2Model ----
(***************************************************************************)
(* A model of ext4fs-rs, a read-only ext4 image reader.                    *)
(*                                                                         *)
(* The image is the input.  Its data area is a byte array (ImageByte);     *)
(* the positional file reader (file.rs), the whole-file read (inode.rs)    *)
(* and the per-extent read (extent.rs) are modelled on byte offsets.       *)
(*                                                                         *)
(* Directories are chains of on-disk records (img.dirs), decoded as        *)
(* entry.rs decodes them; the inode table is img.inodes.                   *)
(*                                                                         *)
(* Specifications:                                                         *)
(*   SpecFile  File::read / File::seek on an opened file, next to          *)
(*             FileSystem::read of the same inode.                         *)
(*   SpecLink  Inode::read_link / Inode::read_bytes on a symlink inode.    *)
(*   SpecDir   FileSystem::metadata / read_dir and ReadDir::next on a root *)
(*             directory laid out over blocks and extents.                 *)
(*   SpecPath  the facade and get_inode_by_path on the paths of a tree.    *)
(*   SpecMount FileSystem::from_reader on an image, then get_inode.        *)
(*   SpecExtents Inode::extents on an extent tree of the image.            *)
(*   SpecSession several facade calls on one handle.                       *)
(***************************************************************************)
EXTENDS Integers, Sequences, FiniteSets, TLC

(***************************************************************************)
(* Bounds of the model.                                                    *)
(***************************************************************************)
\* extents in a file's extent list
MaxExtents == 2
\* largest inode size (bytes) of a file
MaxFileLen == 4
\* largest caller buffer handed to File::read
MaxBuf == 3
\* largest |offset| handed to SeekFrom::End / SeekFrom::Current
MaxOff == 1
\* block sizes; the reader takes the block size as a parameter
BlockSizes == {1, 2}
\* extent lengths, in blocks
ExtentLens == {1, 2}
\* blocks in the image
ImageBlocks == 3
\* largest cursor a seek is asked to set (above every file length)
MaxPos == 5

(***************************************************************************)
(* u64 arithmetic.  TLC's integers are 32 bits wide, so the 64-bit words   *)
(* of the program are kept modulo U64 = 2^30; every other quantity of the  *)
(* model is far below it, so a wrapped value is, as in the program, far    *)
(* above every file length.                                                *)
(***************************************************************************)
U64 == 2^30

Min(a, b) == IF a < b THEN a ELSE b

\* the cursor values the model follows: small ones, and the top of the u64 range
Tracked(pos) == pos <= MaxPos \/ pos >= U64 - MaxOff

VARIABLES
    block_size,   \* SuperBlock::get_block_size(), handed to every reader
    f_extents,    \* File.extents: <<[len, loc]>>, the inode's extent list
    f_len,        \* File.len: the inode's size
    f_current,    \* File.current: the cursor
    f_panicked,   \* an arithmetic overflow panicked (overflow checks on)
    f_last,       \* the last call on the File and what it returned
    f_acc,        \* bytes delivered since the cursor was last set
    f_from,       \* where the cursor was last set (0 at open)
    f_state,      \* "open" | "seeked": how the cursor was last set; "eof" flag below
    f_eof,        \* a read into a non-empty buffer returned Ok(0) since then
    f_err,        \* a read returned Err since then
    fs_read,      \* result of FileSystem::read on the same inode
    lk,           \* a symlink inode and what Inode::read_link / read_bytes returned
    img,          \* the image below a FileSystem: feature flag, inode table, directories
    scope,        \* which paths the caller uses on it: "dir", "tree" or "none"
    call,         \* the last facade call and what it returned
    rd,           \* the ReadDir a read_dir call returned, and what it has yielded
    walk,         \* get_inode_by_path, one path component at a time
    fs,           \* what FileSystem::from_reader returned: the handle, or the failure
    got,          \* the last get_inode on the handle and what it returned
    xt            \* an inode, what Inode::extents returned on it, and its queue

filevars == <<f_extents, f_len, f_current, f_panicked, f_last, f_acc, f_from,
              f_state, f_eof, f_err, fs_read>>
fsvars == <<img, scope, call, rd, walk>>
\* the mount (SpecMount) and the extent walk (SpecExtents)
mountvars == <<fs, got, xt>>
\* what the File's calls leave alone
nonfile == <<lk, fsvars, mountvars>>
vars == <<block_size, filevars, nonfile>>

(***************************************************************************)
(* The image's data area.                                                  *)
(***************************************************************************)
\* the byte stored at absolute offset p
ImageByte(p) == p % 256

\* the image's length in bytes
ImageLen == ImageBlocks * block_size

\* the bytes at offsets from .. from+n-1
ImageBytes(from, n) == [i \in 1..n |-> ImageByte(from + i - 1)]

(***************************************************************************)
(* extent.rs                                                               *)
(***************************************************************************)
\* Extent::read_bytes: `size` is the extent's byte length cut to `max`; it is
\* not reduced by `start`.  read_exact fails when the image ends first.
ExtentReadBytes(e, bs, start, max) ==
    LET pos  == e.loc * bs
        full == e.len * bs
        size == IF max < full THEN max ELSE full
    IN  IF pos + start + size > ImageLen /\ size > 0
        THEN [ok |-> FALSE, buf |-> <<>>]
        ELSE [ok |-> TRUE,  buf |-> ImageBytes(pos + start, size)]

(***************************************************************************)
(* inode.rs: the whole-file read over the list the extent walk returned.   *)
(***************************************************************************)
RECURSIVE ReadBytesLoop(_, _, _, _, _)
ReadBytesLoop(extents, bs, i, size, acc) ==
    IF i > Len(extents) \/ size = 0
    THEN [ok |-> TRUE, data |-> acc.data, reads |-> acc.reads]
    ELSE LET r == ExtentReadBytes(extents[i], bs, 0, size)
         IN  IF ~r.ok
             THEN [ok |-> FALSE, data |-> <<>>, reads |-> acc.reads + 1]
             ELSE ReadBytesLoop(extents, bs, i + 1,
                                IF size >= Len(r.buf) THEN size - Len(r.buf) ELSE size,
                                [data |-> acc.data \o r.buf, reads |-> acc.reads + 1])

\* Inode::read_bytes after `self.extents(..)?` has returned `extents`;
\* `reads` counts the Extent::read_bytes calls issued on the reader
InodeReadBytes(extents, size, bs) ==
    ReadBytesLoop(extents, bs, 1, size, [data |-> <<>>, reads |-> 0])

(***************************************************************************)
(* codec.rs: fixed-width little-endian records.                            *)
(***************************************************************************)
\* utils.rs compute_u64: (high << 32) | lower.  HiUnit stands for 2^32; every
\* lower half of the model is below it.
HiUnit == 2^15

ComputeU64(lower, high) == high * HiUnit + lower

LE16(v) == <<v % 256, v \div 256>>

LE32(v) == <<v % 256, (v \div 256) % 256, (v \div 65536) % 256, v \div 16777216>>

\* the u16 / u32 stored at bytes i.. of b (1-based)
U16At(b, i) == b[i] + 256 * b[i + 1]

U32At(b, i) == b[i] + 256 * b[i + 1] + 65536 * b[i + 2] + 16777216 * b[i + 3]

Zeros(n) == [i \in 1..n |-> 0]

(***************************************************************************)
(* constants.rs                                                            *)
(***************************************************************************)
INO_ROOT == 2
INODE_MODE_FIFO == 4096
INODE_MODE_DIR == 16384
INODE_MODE_REG == 32768
INODE_MODE_LNK == 40960
EXTENT_HEADER_MAGIC == 62218

\* inode.rs: `block: [u8; 60]`
BLOCK_LEN == 60
\* size of an extent header, an extent and an extent index on disk
EXTENT_RECORD_LEN == 12

NoErr == [kind |-> "none"]

(***************************************************************************)
(* inode.rs: the extent walk.                                              *)
(***************************************************************************)
\* bytes of a depth-0 extent node: header {magic, entries, max, depth,
\* generation}, then {block, len, start_hi, start_lo} per extent
EncodeExtent(e, k) == LE32(k) \o LE16(e.len) \o LE16(0) \o LE32(e.loc)

RECURSIVE EncodeExtents(_, _)
EncodeExtents(extents, i) ==
    IF i > Len(extents) THEN <<>>
    ELSE EncodeExtent(extents[i], i - 1) \o EncodeExtents(extents, i + 1)

EncodeLeafNode(extents) ==
    LE16(EXTENT_HEADER_MAGIC) \o LE16(Len(extents)) \o LE16(4) \o LE16(0) \o LE32(0)
        \o EncodeExtents(extents, 1)

\* the inode's 60-byte block field holding `extents` at depth 0
ExtentBlock(extents) ==
    LET b == EncodeLeafNode(extents) IN b \o Zeros(BLOCK_LEN - Len(b))

\* Extent / ExtentIdx decoded from the 12 bytes at i.. of b
DecodeExtent(b, i) ==
    [kind |-> "extent", len |-> U16At(b, i + 4),
     loc |-> ComputeU64(U32At(b, i + 8), U16At(b, i + 6))]

DecodeIdx(b, i) ==
    [kind |-> "idx", len |-> 0,
     loc |-> ComputeU64(U32At(b, i + 4), U16At(b, i + 8))]

\* ExtentHeader::from_reader: `eh.magic != EXTENT_HEADER_MAGIC`
\* fault: no header is refused
MagicValidAny(magic) == TRUE

MagicValid(magic) == magic = EXTENT_HEADER_MAGIC

\* Inode::parse_extents on the bytes b a reader still holds: the header, its
\* magic check, then `entries` records, extents at depth 0 and indexes above
ParseExtents(b) ==
    IF Len(b) < EXTENT_RECORD_LEN
    THEN [ok |-> FALSE, err |-> [kind |-> "Bincode"], items |-> <<>>]
    ELSE LET magic   == U16At(b, 1)
             entries == U16At(b, 3)
             depth   == U16At(b, 7)
         IN  IF ~MagicValid(magic)
             THEN [ok |-> FALSE,
                   err |-> [kind |-> "InvalidExtentHeaderMagic", magic |-> magic],
                   items |-> <<>>]
             ELSE IF Len(b) < EXTENT_RECORD_LEN * (entries + 1)
             THEN [ok |-> FALSE, err |-> [kind |-> "Bincode"], items |-> <<>>]
             ELSE [ok |-> TRUE, err |-> NoErr,
                   items |-> [k \in 1..entries |->
                                 IF depth = 0
                                 THEN DecodeExtent(b, EXTENT_RECORD_LEN * k + 1)
                                 ELSE DecodeIdx(b, EXTENT_RECORD_LEN * k + 1)]]

\* the bytes an index-pointed node is parsed from: one block at `pos`; the
\* image of SpecExtents holds extent tree nodes in its blocks (img.nodes)
NodeBytes(pos, bs) ==
    IF scope = "extents"
    THEN IF pos \div bs \in DOMAIN img.nodes THEN img.nodes[pos \div bs] ELSE <<>>
    ELSE IF pos + bs <= ImageLen THEN ImageBytes(pos, bs)
    ELSE IF pos < ImageLen THEN ImageBytes(pos, ImageLen - pos) ELSE <<>>

Reverse(q) == [i \in 1..Len(q) |-> q[Len(q) + 1 - i]]

\* `for i in Self::parse_extents(..)? { queue.push_back(i) }`
\* fault: the items are queued last first
EnqueueReversed(queue, items) == queue \o Reverse(items)

Enqueue(queue, items) == queue \o items

\* the `while let Some(item) = queue.pop_front()` loop of Inode::extents
RECURSIVE ExtentsLoop(_, _, _, _)
ExtentsLoop(queue, bs, result, seeks) ==
    IF queue = <<>>
    THEN [ok |-> TRUE, err |-> NoErr, extents |-> result, seeks |-> seeks]
    ELSE LET item == Head(queue)
         IN  IF item.kind = "extent"
             THEN ExtentsLoop(Tail(queue), bs,
                              Append(result, [len |-> item.len, loc |-> item.loc]), seeks)
             ELSE LET p == ParseExtents(NodeBytes(item.loc * bs, bs))
                  IN  IF ~p.ok
                      THEN [ok |-> FALSE, err |-> p.err, extents |-> <<>>,
                            seeks |-> seeks + 1]
                      ELSE ExtentsLoop(Enqueue(Tail(queue), p.items), bs, result,
                                       seeks + 1)

\* Inode::extents: the root node is parsed from the inode's block field
InodeExtents(inode, bs) ==
    LET root == ParseExtents(inode.block)
    IN  IF ~root.ok
        THEN [ok |-> FALSE, err |-> root.err, extents |-> <<>>, seeks |-> 0]
        ELSE ExtentsLoop(root.items, bs, <<>>, 0)

\* Inode::get_size
GetSize(inode) == ComputeU64(inode.size_lo, inode.size_high)

\* Inode::read_bytes.  `parsed`: an extent header was parsed; `io`: calls made
\* on the reader (a seek per index node, a seek and a read per extent read)
InodeReadBytesOf(inode, bs) ==
    LET w == InodeExtents(inode, bs)
    IN  IF ~w.ok
        THEN [ok |-> FALSE, err |-> w.err, data |-> <<>>, parsed |-> TRUE, io |-> w.seeks]
        ELSE LET r == InodeReadBytes(w.extents, GetSize(inode), bs)
             IN  [ok |-> r.ok, err |-> IF r.ok THEN NoErr ELSE [kind |-> "Io"],
                  data |-> r.data, parsed |-> TRUE, io |-> w.seeks + 2 * r.reads]

\* the test `size <= self.block.len()` of Inode::read_link
IsInlineLinkStrict(size) == size < BLOCK_LEN

IsInlineLink(size) == size <= BLOCK_LEN

\* Inode::read_link
InodeReadLink(inode, bs) ==
    LET size == GetSize(inode)
    IN  IF IsInlineLink(size)
        THEN [ok |-> TRUE, err |-> NoErr, data |-> SubSeq(inode.block, 1, size),
              parsed |-> FALSE, io |-> 0]
        ELSE InodeReadBytesOf(inode, bs)

(***************************************************************************)
(* entry.rs: directory records.  On disk a record is {inode: u32,          *)
(* rec_len: u16, two bytes b6 b7, name bytes, padding up to rec_len}; the  *)
(* two bytes are name_len: u16 without FILETYPE and {name_len: u8,         *)
(* file_type: u8} with it.  img.dirs[loc] is the chain of records stored   *)
(* from block loc on.  The records of this model have                      *)
(* rec_len >= 8 + name_len, as mke2fs and the kernel write them.           *)
(***************************************************************************)
DOT_DIR_NAME == <<46>>
DOTDOT_DIR_NAME == <<46, 46>>
\* rec_len of a DirEntryTail
TAIL_REC_LEN == 12
\* reserved_ft of a DirEntryTail
TAIL_FT == 222
\* bytes of a record before its name
ENTRY_HEADER_LEN == 8

\* the record starting at byte `off` of a chain, or no record there
RECURSIVE RecordAt(_, _, _)
RecordAt(chain, i, off) ==
    IF i > Len(chain) \/ off < 0 THEN [found |-> FALSE, rec |-> [inode |-> 0]]
    ELSE IF off = 0 THEN [found |-> TRUE, rec |-> chain[i]]
    ELSE RecordAt(chain, i + 1, off - chain[i].rec_len)

\* DirEntryEnum::from_reader on a reader at byte `off` of the chain from block
\* `loc`, with `limit` bytes left before the reader reports end of file
EntryFromReader(loc, off, limit, filetype) ==
    IF limit < 6 THEN [kind |-> "eof"]
    ELSE IF loc \notin DOMAIN img.dirs THEN [kind |-> "io"]
    ELSE LET at == RecordAt(img.dirs[loc], 1, off)
             r  == at.rec
         IN  IF ~at.found THEN [kind |-> "io"]
             ELSE IF r.inode = 0 /\ r.rec_len = TAIL_REC_LEN
             THEN IF limit < 8 THEN [kind |-> "eof"]
                  ELSE IF r.b6 # 0 \/ r.b7 # TAIL_FT THEN [kind |-> "io"]
                  ELSE IF limit < TAIL_REC_LEN THEN [kind |-> "eof"]
                  ELSE [kind |-> "tail"]
             ELSE LET name_len == IF filetype THEN r.b6 ELSE r.b6 + 256 * r.b7
                      real_len == name_len + ENTRY_HEADER_LEN
                      align    == r.rec_len - real_len
                  IN  IF limit < real_len + align THEN [kind |-> "eof"]
                      ELSE [kind |-> "entry",
                            e |-> [variant   |-> IF filetype THEN "DirEntry2" ELSE "DirEntry",
                                   inode     |-> r.inode,
                                   rec_len   |-> r.rec_len,
                                   name_len  |-> name_len,
                                   file_type |-> IF filetype THEN r.b7 ELSE 0,
                                   name      |-> [i \in 1..name_len |->
                                                     IF i <= Len(r.name)
                                                     THEN r.name[i] ELSE 0]]]

\* DirEntryEnum::is_dot / is_dotdot
IsDot(e) == e.name = DOT_DIR_NAME

\* fault: `..` is not recognised
IsDotDotNever(e) == FALSE

IsDotDot(e) == e.name = DOTDOT_DIR_NAME

\* String::from_utf8_lossy on a name whose bytes are ASCII or the lone byte
\* 0xFF, which is no UTF-8 and becomes U+FFFD
Lossy(bytes) == [i \in 1..Len(bytes) |-> IF bytes[i] < 128 THEN bytes[i] ELSE 65533]

\* DirEntryEnum::get_name_str
GetNameStr(e) == Lossy(e.name)

(***************************************************************************)
(* extent.rs: Extent::read_entry                                           *)
(***************************************************************************)
\* the loop of read_entry over one limit reader: `.` and `..` are skipped
\* with their rec_len added to the offset
RECURSIVE ReadEntryLoop(_, _, _, _)

\* the arms of `match DirEntryEnum::from_reader(..)`, r what it returned
ReadEntryMatch(extent, size, filetype, offset, r) ==
    CASE r.kind = "tail"  -> [kind |-> "none"]
      [] r.kind = "eof"   -> [kind |-> "none"]
      [] r.kind = "io"    -> [kind |-> "err"]
      [] r.kind = "entry" ->
            IF IsDot(r.e) \/ IsDotDot(r.e)
            THEN ReadEntryLoop(extent, size, filetype, offset + r.e.rec_len)
            ELSE [kind |-> "some", e |-> r.e, offset |-> offset + r.e.rec_len]

ReadEntryLoop(extent, size, filetype, offset) ==
    CHOOSE v \in {ReadEntryMatch(extent, size, filetype, offset, r) :
                     r \in {EntryFromReader(extent.loc, offset, size - offset, filetype)}} :
        TRUE

ReadEntry(extent, bs, filetype, offset) ==
    LET size == extent.len * bs
    IN  IF offset >= size THEN [kind |-> "none"]
        ELSE ReadEntryLoop(extent, size, filetype, offset)

(***************************************************************************)
(* read_dir.rs: ReadDir                                                    *)
(***************************************************************************)
\* the test that ends an extent after an entry: `extent.len as u64 >= offset`
RollForward(extent, offset) == extent.len >= offset

\* the arm `Ok(None)` of ReadDir::next, before its `continue`
\* fault: the iteration ends
AfterNoneEnd(it) == [it EXCEPT !.extent_offset = 0, !.idx = Len(it.extents)]

AfterNone(it) == [it EXCEPT !.extent_offset = 0, !.idx = it.idx + 1]

\* ReadDir::next on the iterator it == [extents, idx, extent_offset].
\* `from` and `to` are the extent and offsets the yielded entry was read at.
RECURSIVE ReadDirNext(_, _, _)

\* the arms of `match extent.read_entry(..)`, r what read_entry returned
ReadDirMatch(it, bs, filetype, extent, r) ==
    CASE r.kind = "some" ->
            [kind |-> "ok", e |-> r.e,
             from |-> [idx |-> it.idx, offset |-> it.extent_offset],
             to   |-> r.offset,
             it   |-> IF RollForward(extent, r.offset)
                      THEN [it EXCEPT !.extent_offset = 0, !.idx = it.idx + 1]
                      ELSE [it EXCEPT !.extent_offset = r.offset]]
      [] r.kind = "none" -> ReadDirNext(AfterNone(it), bs, filetype)
      [] r.kind = "err" -> [kind |-> "err", it |-> it]

ReadDirNext(it, bs, filetype) ==
    IF it.idx >= Len(it.extents)
    THEN [kind |-> "none", it |-> it]
    ELSE CHOOSE v \in {ReadDirMatch(it, bs, filetype, it.extents[it.idx + 1], r) :
                          r \in {ReadEntry(it.extents[it.idx + 1], bs, filetype,
                                           it.extent_offset)}} :
             TRUE

\* ReadDir::new
NewReadDir(extents) == [extents |-> extents, idx |-> 0, extent_offset |-> 0]

(***************************************************************************)
(* inode.rs: the file type of an inode                                     *)
(***************************************************************************)
\* mode & 0xF000
ModeType(mode) == ((mode \div 4096) % 16) * 4096

IsDir(inode) == ModeType(inode.mode) = INODE_MODE_DIR

\* fault: the type bits are compared as a number
IsRegularLoose(inode) == inode.mode >= INODE_MODE_REG

IsRegular(inode) == ModeType(inode.mode) = INODE_MODE_REG

IsSymlink(inode) == ModeType(inode.mode) = INODE_MODE_LNK

NoInode == [mode |-> 0, size_lo |-> 0, size_high |-> 0, block |-> <<>>]

(***************************************************************************)
(* fs.rs: FileSystem::get_inode.  img.inodes is the inode table, groups of *)
(* img.ipg inodes, img.groups block group descriptors.                     *)
(***************************************************************************)
\* `overflow`: `ino - 1` wrapped; with overflow checks the call panics instead
GetInode(ino) ==
    LET ino1    == IF ino = 0 THEN U64 - 1 ELSE ino - 1
        bgd_num == ino1 \div img.ipg
    IN  IF bgd_num >= img.groups
        THEN [ok |-> FALSE, inode |-> NoInode, overflow |-> (ino = 0),
              err |-> [kind |-> "BlockGroupDescriptorNotFound", n |-> bgd_num]]
        ELSE [ok |-> TRUE, inode |-> img.inodes[ino1 + 1], overflow |-> (ino = 0),
              err |-> NoErr]

(***************************************************************************)
(* Paths.  A path is [abs, segs]: whether it starts with `/`, and the      *)
(* strings between its `/`s; a string is a sequence of code points.        *)
(***************************************************************************)
ROOT_NAME == <<47>>

PathErr(kind, p) == [kind |-> kind, path |-> p]

\* std::path::Path::components on an absolute path: RootDir, then one
\* component per segment; empty segments and `.` are dropped
RECURSIVE SegComponents(_, _)
SegComponents(segs, i) ==
    IF i > Len(segs) THEN <<>>
    ELSE LET rest == SegComponents(segs, i + 1)
         IN  CASE segs[i] = <<>>            -> rest
               [] segs[i] = DOT_DIR_NAME    -> rest
               [] segs[i] = DOTDOT_DIR_NAME ->
                      <<[kind |-> "ParentDir", name |-> segs[i]]>> \o rest
               [] OTHER -> <<[kind |-> "Normal", name |-> segs[i]]>> \o rest

Components(p) == <<[kind |-> "RootDir", name |-> ROOT_NAME]>> \o SegComponents(p.segs, 1)

\* `name_inode_stack.iter().map(|&(s, _)| s).collect::<PathBuf>().join(name)`
StackPath(stack, name) ==
    LET rooted == stack # <<>> /\ stack[1].name = ROOT_NAME
        from   == IF rooted THEN 2 ELSE 1
    IN  [abs  |-> rooted,
         segs |-> [i \in 1..(Len(stack) - from + 1) |-> stack[i + from - 1].name]
                      \o <<name>>]

\* the `for x in rd` loop of the Normal branch: first item whose name is `name`
RECURSIVE FindEntry(_, _)

\* the body of the loop on the item n
FindEntryIn(n, name) ==
    CASE n.kind = "none" -> [kind |-> "none"]
      [] n.kind = "err"  -> [kind |-> "err"]
      [] n.kind = "ok"   -> IF GetNameStr(n.e) = name
                            THEN [kind |-> "found", e |-> n.e]
                            ELSE FindEntry(n.it, name)

FindEntry(it, name) == FindEntryIn(ReadDirNext(it, block_size, img.filetype), name)

\* the test `name_inode_stack.len() <= 1` of the ParentDir branch
\* fault: the test is `< 1`
AtRootEmpty(stack) == Len(stack) < 1

AtRoot(stack) == Len(stack) <= 1

\* `name_inode_stack.pop()`
\* fault: nothing is popped
PopStackKeep(stack) == stack

PopStack(stack) == SubSeq(stack, 1, Len(stack) - 1)

StepOk(stack) == [ok |-> TRUE, stack |-> stack, err |-> NoErr, overflow |-> FALSE]

StepErr(stack, err, overflow) ==
    [ok |-> FALSE, stack |-> stack, err |-> err, overflow |-> overflow]

\* push of (name, g?) where g is what get_inode(ino) returned; `ino` is kept
\* beside the inode to name it
Pushed(stack, name, ino, g) ==
    IF g.ok
    THEN [ok |-> TRUE, err |-> NoErr, overflow |-> g.overflow,
          stack |-> Append(stack, [name |-> name, inode |-> g.inode, ino |-> ino])]
    ELSE StepErr(stack, g.err, g.overflow)

PushInode(stack, name, ino) == Pushed(stack, name, ino, GetInode(ino))

\* the `match entry` of the Normal branch, f what the loop over rd left
NormalMatch(stack, comp, f) ==
    CASE f.kind = "err"   -> StepErr(stack, [kind |-> "Io"], FALSE)
      [] f.kind = "none"  ->
            StepErr(stack, PathErr("NoSuchFileOrDirectory", StackPath(stack, comp.name)),
                    FALSE)
      [] f.kind = "found" -> PushInode(stack, comp.name, f.e.inode)

\* the Normal branch from `last_inode.read_dir(..)?` on, w its extents
NormalLookup(stack, comp, w) ==
    IF ~w.ok THEN StepErr(stack, w.err, FALSE)
    ELSE NormalMatch(stack, comp, FindEntry(NewReadDir(w.extents), comp.name))

\* one turn of `for component in p.components()` of get_inode_by_path
ResolveComponent(stack, comp, p) ==
    CASE comp.kind = "RootDir" -> PushInode(stack, comp.name, INO_ROOT)
      [] comp.kind \in {"Prefix", "CurDir"} -> StepOk(stack)
      [] comp.kind = "ParentDir" ->
            IF AtRoot(stack)
            THEN StepErr(stack, PathErr("UnexpectedParentDir", p), FALSE)
            ELSE IF stack = <<>>
            THEN StepErr(stack, PathErr("InvalidPath", p), FALSE)
            ELSE StepOk(PopStack(stack))
      [] comp.kind = "Normal" ->
            IF stack = <<>>
            THEN StepErr(stack, PathErr("InvalidPath", p), FALSE)
            ELSE IF ~IsDir(stack[Len(stack)].inode)
            THEN StepErr(stack, PathErr("IsNotDirecotry", StackPath(stack, comp.name)),
                         FALSE)
            ELSE NormalLookup(stack, comp,
                              InodeExtents(stack[Len(stack)].inode, block_size))

RECURSIVE ResolveLoop(_, _, _, _)

\* the rest of the loop after a turn that returned s
ResolveRest(comps, i, p, s) ==
    IF ~s.ok THEN s
    ELSE [ResolveLoop(comps, i + 1, s.stack, p) EXCEPT !.overflow = @ \/ s.overflow]

ResolveLoop(comps, i, stack, p) ==
    IF i > Len(comps) THEN StepOk(stack)
    ELSE ResolveRest(comps, i, p, ResolveComponent(stack, comps[i], p))

\* what get_inode_by_path returns once the components are done
ResolveResult(s, p) ==
    IF ~s.ok THEN [ok |-> FALSE, inode |-> NoInode, err |-> s.err, overflow |-> s.overflow]
    ELSE IF s.stack = <<>>
    THEN [ok |-> FALSE, inode |-> NoInode, err |-> PathErr("InvalidPath", p),
          overflow |-> s.overflow]
    ELSE [ok |-> TRUE, inode |-> s.stack[Len(s.stack)].inode, err |-> NoErr,
          overflow |-> s.overflow]

\* `path.as_ref().is_absolute()`: on Unix, the path starts with `/`
\* fault: every path passes
IsAbsoluteAny(p) == TRUE

IsAbsolute(p) == p.abs

\* FileSystem::get_inode_by_path
GetInodeByPath(p) ==
    IF ~IsAbsolute(p)
    THEN [ok |-> FALSE, inode |-> NoInode, err |-> PathErr("RequireAbsolutePath", p),
          overflow |-> FALSE]
    ELSE ResolveResult(ResolveLoop(Components(p), 1, <<>>, p), p)

(***************************************************************************)
(* fs.rs: the facade.  An outcome is what a call returned: the error, or   *)
(* the inode (metadata), the bytes (read, read_link), the extents and      *)
(* length handed to ReadDir::new / File::new (read_dir, open).  `parsed`   *)
(* and `io`: the extent header of the resolved inode was parsed, and the   *)
(* calls made on the reader for its extents and data.                      *)
(***************************************************************************)
FsErr(err) ==
    [status |-> "err", err |-> err, inode |-> NoInode, data |-> <<>>,
     extents |-> <<>>, len |-> 0, parsed |-> FALSE, io |-> 0]

FsOk == [FsErr(NoErr) EXCEPT !.status = "ok"]

FsPanic == [FsErr(NoErr) EXCEPT !.status = "panic"]

FsNone == [FsErr(NoErr) EXCEPT !.status = "none"]

\* Inode::read_dir / Inode::read_file up to the constructor call
Constructed(w, len) ==
    IF ~w.ok THEN [FsErr(w.err) EXCEPT !.parsed = TRUE, !.io = w.seeks]
    ELSE [FsOk EXCEPT !.extents = w.extents, !.len = len, !.parsed = TRUE, !.io = w.seeks]

WithExtents(inode, len) == Constructed(InodeExtents(inode, block_size), len)

WithBytes(b) ==
    IF ~b.ok THEN [FsErr(b.err) EXCEPT !.parsed = b.parsed, !.io = b.io]
    ELSE [FsOk EXCEPT !.data = b.data, !.parsed = b.parsed, !.io = b.io]

\* the operations from `let i = self.get_inode_by_path(path)?` on, i what
\* get_inode_by_path returned
ReadDirOf(p, i) ==
    IF ~i.ok THEN FsErr(i.err)
    ELSE IF ~IsDir(i.inode) THEN FsErr(PathErr("IsNotDirecotry", p))
    ELSE WithExtents(i.inode, 0)

ReadOf(p, i) ==
    IF ~i.ok THEN FsErr(i.err)
    ELSE IF ~IsRegular(i.inode) THEN FsErr(PathErr("IsNotRegular", p))
    ELSE WithBytes(InodeReadBytesOf(i.inode, block_size))

\* the PathBuf is the lossy decoding of the bytes read
ReadLinkOf(p, i) ==
    IF ~i.ok THEN FsErr(i.err)
    ELSE IF ~IsSymlink(i.inode) THEN FsErr(PathErr("IsNotSymlink", p))
    ELSE [WithBytes(InodeReadLink(i.inode, block_size)) EXCEPT !.data = Lossy(@)]

MetadataOf(p, i) ==
    IF ~i.ok THEN FsErr(i.err)
    ELSE [FsOk EXCEPT !.inode = i.inode]

OpenOf(p, i) ==
    IF ~i.ok THEN FsErr(i.err)
    ELSE IF ~IsRegular(i.inode) THEN FsErr(PathErr("IsNotRegular", p))
    ELSE WithExtents(i.inode, GetSize(i.inode))

\* what the operation `op` returns on the path p
Facade(op, p, i) ==
    CASE op = "read_dir"  -> ReadDirOf(p, i)
      [] op = "read"      -> ReadOf(p, i)
      [] op = "read_link" -> ReadLinkOf(p, i)
      [] op = "metadata"  -> MetadataOf(p, i)
      [] op = "open"      -> OpenOf(p, i)

FileSystemReadDir(p) == ReadDirOf(p, GetInodeByPath(p))

FileSystemRead(p) == ReadOf(p, GetInodeByPath(p))

FileSystemReadLink(p) == ReadLinkOf(p, GetInodeByPath(p))

FileSystemMetadata(p) == MetadataOf(p, GetInodeByPath(p))

FileSystemOpen(p) == OpenOf(p, GetInodeByPath(p))

NoPath == [abs |-> FALSE, segs |-> <<>>]

CallIdle == [op |-> "none", path |-> NoPath, res |-> FsNone]

NoEntry == [variant |-> "none", inode |-> 0, rec_len |-> 0, name_len |-> 0,
            file_type |-> 0, name |-> <<>>]

NoYield == [kind |-> "none", e |-> NoEntry, idx |-> 0, from |-> 0, to |-> 0]

RdIdle == [open |-> FALSE, it |-> NewReadDir(<<>>), items |-> <<>>, last |-> NoYield]

WalkIdle == [status |-> "idle", path |-> NoPath, comps |-> <<>>, i |-> 0,
             stack |-> <<>>, before |-> <<>>, step |-> "none", err |-> NoErr]

NoImage == [filetype |-> FALSE, ipg |-> 1, groups |-> 0, inodes |-> <<>>,
            dirs |-> <<>>]

\* no handle: from_reader was not called, or failed
NoHandle ==
    [status |-> "none", err |-> NoErr, checks |-> FALSE, super_block |-> <<>>,
     block_group_descriptors |-> <<>>, reader |-> 0, descs |-> 0]

NoGot == [called |-> FALSE, ino |-> 0, status |-> "none", err |-> NoErr, seeks |-> <<>>,
          inode |-> <<>>]

\* the inode of SpecExtents, unused
NoWalk == [inode |-> NoInode, called |-> FALSE,
           res |-> [ok |-> TRUE, err |-> NoErr, extents |-> <<>>, seeks |-> 0],
           running |-> FALSE, queue |-> <<>>]

\* the handle of SpecMount, unused
MountIdle ==
    /\ fs = NoHandle
    /\ got = NoGot
    /\ xt = NoWalk

\* no FileSystem in use
FsIdle ==
    /\ MountIdle
    /\ img = NoImage
    /\ scope = "none"
    /\ call = CallIdle
    /\ rd = RdIdle
    /\ walk = WalkIdle

(***************************************************************************)
(* file.rs                                                                 *)
(***************************************************************************)
\* the `max` File::read hands to Extent::read_bytes
ReadBudgetNoFileLimit(file_remain_len, buf_remain_len) == buf_remain_len

ReadBudget(file_remain_len, buf_remain_len) == Min(file_remain_len, buf_remain_len)

\* the body of `for e in &self.extents`; `offset` moves only on `continue`
RECURSIVE FileReadLoop(_, _, _, _, _, _, _, _)
FileReadLoop(extents, bs, len, b, i, offset, buf_pos, st) ==
    IF i > Len(extents)
    THEN [ok |-> TRUE, n |-> buf_pos, current |-> st.current, data |-> st.data]
    ELSE LET e == extents[i]
             extent_size == e.len * bs
         IN  IF st.current >= offset + extent_size
             THEN FileReadLoop(extents, bs, len, b, i + 1, offset + extent_size, buf_pos, st)
             ELSE LET file_remain_len == len - st.current
                      buf_remain_len  == b - buf_pos
                      temp == ExtentReadBytes(e, bs, st.current - offset,
                                              ReadBudget(file_remain_len, buf_remain_len))
                      pos2 == buf_pos + Len(temp.buf)
                      st2  == [current |-> st.current + Len(temp.buf),
                               data    |-> st.data \o temp.buf]
                  IN  IF ~temp.ok
                      THEN [ok |-> FALSE, n |-> 0, current |-> st.current, data |-> st.data]
                      ELSE IF pos2 >= b
                           THEN [ok |-> TRUE, n |-> pos2, current |-> st2.current,
                                 data |-> st2.data]
                           ELSE FileReadLoop(extents, bs, len, b, i + 1, offset, pos2, st2)

\* File::read into a buffer of length b, with the cursor at `current`
FileReadOp(extents, bs, len, current, b) ==
    IF b = 0 \/ current >= len
    THEN [ok |-> TRUE, n |-> 0, current |-> current, data |-> <<>>]
    ELSE FileReadLoop(extents, bs, len, b, 1, 0, 0, [current |-> current, data |-> <<>>])

NoCall == [op |-> "none", arg |-> 0, ok |-> TRUE, ret |-> 0, before |-> 0, data |-> <<>>]

\* extents that lie inside the image
ExtentSet == {e \in [len : ExtentLens, loc : 0..(ImageBlocks - 1)] :
                 e.loc + e.len <= ImageBlocks}

RECURSIVE SeqsUpTo(_, _)
SeqsUpTo(S, n) ==
    IF n = 0 THEN {<<>>}
    ELSE LET shorter == SeqsUpTo(S, n - 1)
         IN  shorter \cup {Append(s, x) : s \in {t \in shorter : Len(t) = n - 1}, x \in S}

NotCalled == [called |-> FALSE, ok |-> TRUE, err |-> NoErr, data |-> <<>>,
              parsed |-> FALSE, io |-> 0]

\* the symlink inode of SpecLink, unused
LinkIdle == lk = [inode |-> [mode |-> 0, size_lo |-> 0, size_high |-> 0, block |-> <<>>],
                  link |-> NotCalled, full |-> NotCalled]

\* no two extents of the list share a block
Disjoint(extents) ==
    \A i, j \in 1..Len(extents) :
        i < j => \/ extents[i].loc + extents[i].len <= extents[j].loc
                 \/ extents[j].loc + extents[j].len <= extents[i].loc

\* FileSystem::open: File::new(reader, extents, len, block_size), cursor 0
InitFile ==
    /\ block_size \in BlockSizes
    /\ f_extents \in {x \in SeqsUpTo(ExtentSet, MaxExtents) : Disjoint(x)}
    /\ f_len \in 0..MaxFileLen
    /\ f_current = 0
    /\ f_panicked = FALSE
    /\ f_last = NoCall
    /\ f_acc = <<>>
    /\ f_from = 0
    /\ f_state = "open"
    /\ f_eof = FALSE
    /\ f_err = FALSE
    /\ fs_read = [called |-> FALSE, ok |-> TRUE, data |-> <<>>]
    /\ LinkIdle
    /\ FsIdle

\* impl Read for File
FileRead(b) ==
    /\ ~f_panicked
    /\ LET r == FileReadOp(f_extents, block_size, f_len, f_current, b)
       IN  /\ f_current' = r.current
           /\ f_last' = [op |-> "read", arg |-> b, ok |-> r.ok, ret |-> r.n,
                         before |-> f_current, data |-> r.data]
           /\ f_acc' = f_acc \o r.data
           /\ f_eof' = (f_eof \/ (r.ok /\ r.n = 0 /\ b > 0))
           /\ f_err' = (f_err \/ ~r.ok)
    /\ UNCHANGED <<nonfile, block_size, f_extents, f_len, f_panicked, f_from, f_state, fs_read>>

\* the cursor has been set to `pos` by a seek that returned Ok(pos)
Seeked(op, arg, pos) ==
    /\ Tracked(pos)
    /\ f_current' = pos
    /\ f_last' = [op |-> op, arg |-> arg, ok |-> TRUE, ret |-> pos,
                  before |-> f_current, data |-> <<>>]
    /\ f_acc' = <<>>
    /\ f_from' = pos
    /\ f_state' = "seeked"
    /\ f_eof' = FALSE
    /\ f_err' = FALSE
    /\ UNCHANGED <<nonfile, block_size, f_extents, f_len, f_panicked, fs_read>>

\* an overflow check fired: the call unwinds and the File is not used again
Panicked(op, arg) ==
    /\ f_panicked' = TRUE
    /\ f_last' = [op |-> op, arg |-> arg, ok |-> FALSE, ret |-> 0,
                  before |-> f_current, data |-> <<>>]
    /\ UNCHANGED <<nonfile, block_size, f_extents, f_len, f_current, f_acc, f_from, f_state,
                   f_eof, f_err, fs_read>>

\* a - b on u64: wraps without overflow checks, panics with them
SubU64(op, arg, a, b) ==
    IF a >= b
    THEN Seeked(op, arg, a - b)
    ELSE \/ Seeked(op, arg, (a - b) % U64)
         \/ Panicked(op, arg)

\* a + b on u64
AddU64(op, arg, a, b) ==
    IF a + b < U64
    THEN Seeked(op, arg, a + b)
    ELSE \/ Seeked(op, arg, (a + b) % U64)
         \/ Panicked(op, arg)

\* SeekFrom::Start(offset)
FileSeekStart(k) ==
    /\ ~f_panicked
    /\ Seeked("start", k, k)

\* SeekFrom::End(offset)
FileSeekEnd(o) ==
    /\ ~f_panicked
    /\ IF o >= 0
       THEN /\ f_last' = [op |-> "end", arg |-> o, ok |-> FALSE, ret |-> 0,
                          before |-> f_current, data |-> <<>>]
            /\ UNCHANGED <<nonfile, block_size, f_extents, f_len, f_current, f_panicked, f_acc,
                           f_from, f_state, f_eof, f_err, fs_read>>
       ELSE SubU64("end", o, f_len, -o)

\* SeekFrom::Current(offset)
FileSeekCurrent(o) ==
    /\ ~f_panicked
    /\ IF o < 0
       THEN SubU64("current", o, f_current, -o)
       ELSE AddU64("current", o, f_current, o)

\* FileSystem::read of the same inode, through another handle on the image
FsRead ==
    /\ ~fs_read.called
    /\ LET r == InodeReadBytes(f_extents, f_len, block_size)
       IN  fs_read' = [called |-> TRUE, ok |-> r.ok, data |-> r.data]
    /\ UNCHANGED <<nonfile, block_size, f_extents, f_len, f_current, f_panicked, f_last, f_acc,
                   f_from, f_state, f_eof, f_err>>

NextFile ==
    \/ \E b \in 0..MaxBuf : FileRead(b)
    \/ \E k \in 0..MaxPos : FileSeekStart(k)
    \/ \E o \in (-MaxOff)..MaxOff : FileSeekEnd(o)
    \/ \E o \in (-MaxOff)..MaxOff : FileSeekCurrent(o)
    \/ FsRead

SpecFile == InitFile /\ [][NextFile]_vars

(***************************************************************************)
(* SpecLink: Inode::read_link and Inode::read_bytes on a symlink inode.    *)
(***************************************************************************)
\* largest symlink size
MaxLinkLen == 62

\* byte i of a symlink target
TargetByte(i) == 97 + (i % 26)

\* a block field holding the first bytes of a target of length n
TargetBlock(n) == [i \in 1..BLOCK_LEN |-> IF i <= n THEN TargetByte(i) ELSE 0]

Returned(r) == [called |-> TRUE, ok |-> r.ok, err |-> r.err, data |-> r.data,
                parsed |-> r.parsed, io |-> r.io]

\* the File of SpecFile, unused
FileIdle ==
    /\ f_extents = <<>>
    /\ f_len = 0
    /\ f_current = 0
    /\ f_panicked = FALSE
    /\ f_last = NoCall
    /\ f_acc = <<>>
    /\ f_from = 0
    /\ f_state = "open"
    /\ f_eof = FALSE
    /\ f_err = FALSE
    /\ fs_read = [called |-> FALSE, ok |-> TRUE, data |-> <<>>]

\* a symlink inode: the target inline in the block field, or a depth-0
\* extent node there, or an empty block field
InitLink ==
    /\ block_size = 1024
    /\ FileIdle
    /\ FsIdle
    /\ \E n \in 0..MaxLinkLen :
       \E blk \in {TargetBlock(n), Zeros(BLOCK_LEN)}
                  \cup {ExtentBlock(x) : x \in {y \in SeqsUpTo(ExtentSet, MaxExtents) :
                                                   Disjoint(y)}} :
           lk = [inode |-> [mode |-> INODE_MODE_LNK + 511, size_lo |-> n,
                            size_high |-> 0, block |-> blk],
                 link |-> NotCalled, full |-> NotCalled]

\* Inode::read_link
LinkReadLink ==
    /\ ~lk.link.called
    /\ lk' = [lk EXCEPT !.link = Returned(InodeReadLink(lk.inode, block_size))]
    /\ UNCHANGED <<block_size, mountvars, filevars, fsvars>>

\* Inode::read_bytes
LinkReadBytes ==
    /\ ~lk.full.called
    /\ lk' = [lk EXCEPT !.full = Returned(InodeReadBytesOf(lk.inode, block_size))]
    /\ UNCHANGED <<block_size, mountvars, filevars, fsvars>>

NextLink ==
    \/ LinkReadLink
    \/ LinkReadBytes

SpecLink == InitLink /\ [][NextLink]_vars

(***************************************************************************)
(* The paths a caller hands to the facade.                                 *)
(***************************************************************************)
A_NAME == <<97>>
B_NAME == <<98>>
X_NAME == <<120>>

AbsPath(segs) == [abs |-> TRUE, segs |-> segs]

DirPaths == {AbsPath(<<>>), AbsPath(<<A_NAME>>), AbsPath(<<B_NAME>>)}

\* most segments of a path
MaxPathSegs == 4

TreeSegs == {A_NAME, B_NAME, X_NAME, DOT_DIR_NAME, DOTDOT_DIR_NAME}

TreePaths ==
    {AbsPath(s) : s \in SeqsUpTo(TreeSegs, MaxPathSegs)}
        \cup {[abs |-> FALSE, segs |-> s] : s \in SeqsUpTo(TreeSegs, 1)}

\* the paths of the caller
Paths == CASE scope = "dir" -> DirPaths [] scope = "tree" -> TreePaths [] OTHER -> {}

(***************************************************************************)
(* The facade on an image.  A FileSystem keeps nothing between calls but   *)
(* the reader, and every read seeks first; read_dir and open consume it.   *)
(* A behaviour makes one call, then drives the ReadDir it returned, or     *)
(* follows get_inode_by_path one component at a time.                      *)
(***************************************************************************)
\* the call returns, or panics where `ino - 1` overflowed with checks on
Returning(op, p, i) ==
    \E out \in (IF i.overflow THEN {FsPanic, Facade(op, p, i)} ELSE {Facade(op, p, i)}) :
        /\ call' = [op |-> op, path |-> p, res |-> out]
        /\ rd' = IF op = "read_dir" /\ out.status = "ok"
                 THEN [RdIdle EXCEPT !.open = TRUE, !.it = NewReadDir(out.extents)]
                 ELSE RdIdle

\* FileSystem::read_dir
CallReadDir ==
    /\ call = CallIdle
    /\ walk = WalkIdle
    /\ \E p \in Paths : Returning("read_dir", p, GetInodeByPath(p))
    /\ UNCHANGED <<block_size, mountvars, filevars, lk, img, scope, walk>>

\* FileSystem::read
CallRead ==
    /\ call = CallIdle
    /\ walk = WalkIdle
    /\ \E p \in Paths : Returning("read", p, GetInodeByPath(p))
    /\ UNCHANGED <<block_size, mountvars, filevars, lk, img, scope, walk>>

\* FileSystem::read_link
CallReadLink ==
    /\ call = CallIdle
    /\ walk = WalkIdle
    /\ \E p \in Paths : Returning("read_link", p, GetInodeByPath(p))
    /\ UNCHANGED <<block_size, mountvars, filevars, lk, img, scope, walk>>

\* FileSystem::metadata
CallMetadata ==
    /\ call = CallIdle
    /\ walk = WalkIdle
    /\ \E p \in Paths : Returning("metadata", p, GetInodeByPath(p))
    /\ UNCHANGED <<block_size, mountvars, filevars, lk, img, scope, walk>>

\* FileSystem::open
CallOpen ==
    /\ call = CallIdle
    /\ walk = WalkIdle
    /\ \E p \in Paths : Returning("open", p, GetInodeByPath(p))
    /\ UNCHANGED <<block_size, mountvars, filevars, lk, img, scope, walk>>

\* the ReadDir after next() returned n
Yielded(n) ==
    [rd EXCEPT !.it = n.it,
               !.items = IF n.kind = "ok" THEN Append(@, n.e) ELSE @,
               !.last = IF n.kind = "ok"
                        THEN [kind |-> "ok", e |-> n.e, idx |-> n.from.idx,
                              from |-> n.from.offset, to |-> n.to]
                        ELSE [NoYield EXCEPT !.kind = n.kind]]

\* ReadDir::next on the iterator read_dir returned
RdNext ==
    /\ rd.open
    /\ \E n \in {ReadDirNext(rd.it, block_size, img.filetype)} : rd' = Yielded(n)
    /\ UNCHANGED <<block_size, mountvars, filevars, lk, img, scope, call, walk>>

\* get_inode_by_path up to its loop
WalkBegin ==
    /\ call = CallIdle
    /\ walk = WalkIdle
    /\ \E p \in Paths :
       walk' = IF ~IsAbsolute(p)
               THEN [WalkIdle EXCEPT !.status = "err", !.path = p, !.step = "check",
                                     !.err = PathErr("RequireAbsolutePath", p)]
               ELSE [WalkIdle EXCEPT !.status = "running", !.path = p, !.step = "check",
                                     !.comps = Components(p), !.i = 1]
    /\ UNCHANGED <<block_size, mountvars, filevars, lk, img, scope, call, rd>>

\* get_inode_by_path after its loop, r the result
WalkEnd(r) ==
    [walk EXCEPT !.status = IF r.ok THEN "ok" ELSE "err", !.err = r.err,
                 !.step = "result", !.before = walk.stack]

\* get_inode_by_path after the turn on comp returned s
WalkTurn(comp, s) ==
    \E panic \in (IF s.overflow THEN BOOLEAN ELSE {FALSE}) :
        walk' = IF panic
                THEN [walk EXCEPT !.status = "panic", !.step = comp.kind,
                                  !.before = walk.stack]
                ELSE [walk EXCEPT !.status = IF s.ok THEN "running" ELSE "err",
                                  !.err = s.err, !.step = comp.kind,
                                  !.before = walk.stack, !.stack = s.stack,
                                  !.i = walk.i + 1]

\* one component of the loop, or the result after the last one
WalkStep ==
    /\ walk.status = "running"
    /\ IF walk.i > Len(walk.comps)
       THEN walk' = WalkEnd(ResolveResult(StepOk(walk.stack), walk.path))
       ELSE WalkTurn(walk.comps[walk.i],
                     ResolveComponent(walk.stack, walk.comps[walk.i], walk.path))
    /\ UNCHANGED <<block_size, mountvars, filevars, lk, img, scope, call, rd>>

(***************************************************************************)
(* Images: directory blocks as mke2fs and the kernel lay them out.  Every  *)
(* record but the last of a block is as long as its name needs, rounded up *)
(* to 4; the last one reaches the end of the block, or the 12-byte tail    *)
(* that ends every block of a metadata_csum file system.  A block without  *)
(* entries is one unused record (inode 0).                                 *)
(***************************************************************************)
Align4(n) == ((n + 3) \div 4) * 4

MkRecord(e, rec_len, filetype) ==
    [inode |-> e.ino, rec_len |-> rec_len,
     b6 |-> IF filetype THEN Len(e.name) ELSE Len(e.name) % 256,
     b7 |-> IF filetype THEN e.ft ELSE Len(e.name) \div 256,
     name |-> e.name]

Unused == [name |-> <<>>, ino |-> 0, ft |-> 0]

TailRecord == [inode |-> 0, rec_len |-> TAIL_REC_LEN, b6 |-> 0, b7 |-> TAIL_FT,
               name |-> <<>>]

RECURSIVE BlockRecords(_, _, _, _)
BlockRecords(entries, i, room, filetype) ==
    IF entries = <<>> THEN <<MkRecord(Unused, room, filetype)>>
    ELSE IF i = Len(entries) THEN <<MkRecord(entries[i], room, filetype)>>
    ELSE LET n == Align4(ENTRY_HEADER_LEN + Len(entries[i].name))
         IN  <<MkRecord(entries[i], n, filetype)>>
                 \o BlockRecords(entries, i + 1, room - n, filetype)

DirBlock(entries, tail, filetype, bs) ==
    IF tail
    THEN BlockRecords(entries, 1, bs - TAIL_REC_LEN, filetype) \o <<TailRecord>>
    ELSE BlockRecords(entries, 1, bs, filetype)

\* the records of an extent of `len` blocks; block k holds blocks[k], the
\* blocks after the listed ones hold no entry
RECURSIVE ExtentChain(_, _, _, _, _, _)
ExtentChain(blocks, k, len, tail, filetype, bs) ==
    IF k > len THEN <<>>
    ELSE DirBlock(IF k <= Len(blocks) THEN blocks[k] ELSE <<>>, tail, filetype, bs)
             \o ExtentChain(blocks, k + 1, len, tail, filetype, bs)

DirInode(extents, bs) ==
    LET blocks == IF Len(extents) = 1 THEN extents[1].len
                  ELSE extents[1].len + extents[2].len
    IN  [mode |-> INODE_MODE_DIR + 493, size_lo |-> blocks * bs, size_high |-> 0,
         block |-> ExtentBlock(extents)]

RegInode(size, loc) ==
    [mode |-> INODE_MODE_REG + 420, size_lo |-> size, size_high |-> 0,
     block |-> ExtentBlock(<<[len |-> 1, loc |-> loc]>>)]

(***************************************************************************)
(* SpecDir: a root directory of one or two extents, its entries spread     *)
(* over the first blocks of the extents in every order-preserving way.     *)
(***************************************************************************)
\* most entries in the directory
MaxDirEntries == 2

\* extent lengths of the directory, in blocks
DirShapes == {<<1>>, <<2>>, <<12>>, <<1, 1>>, <<1, 2>>, <<2, 1>>, <<12, 1>>, <<2, 2>>}

\* "a" twice, "b", `.` and `..`, and a deleted "a" (inode 0, name left behind)
DirEntryChoices ==
    {[name |-> A_NAME, ino |-> 3, ft |-> 1], [name |-> A_NAME, ino |-> 4, ft |-> 1],
     [name |-> B_NAME, ino |-> 4, ft |-> 1], [name |-> A_NAME, ino |-> 0, ft |-> 0],
     [name |-> DOT_DIR_NAME, ino |-> 2, ft |-> 2],
     [name |-> DOTDOT_DIR_NAME, ino |-> 2, ft |-> 2]}

\* blocks of an extent that entries are put in
Slots(len) == Min(len, 2)

SlotBase(shape, k) == IF k = 1 THEN 0 ELSE Slots(shape[1])

NSlots(shape) == SlotBase(shape, Len(shape)) + Slots(shape[Len(shape)])

\* the entries of es assigned to `slot` by sl, in order
RECURSIVE InSlot(_, _, _, _)
InSlot(es, sl, slot, i) ==
    IF i > Len(es) THEN <<>>
    ELSE (IF sl[i] = slot THEN <<es[i]>> ELSE <<>>) \o InSlot(es, sl, slot, i + 1)

DirExtents(shape) == [k \in 1..Len(shape) |-> [len |-> shape[k], loc |-> 16 * k]]

DirImage(shape, es, sl, tail, filetype) ==
    [filetype |-> filetype, ipg |-> 8, groups |-> 1,
     inodes |-> [n \in 1..8 |->
                    CASE n = INO_ROOT -> DirInode(DirExtents(shape), 1024)
                      [] n = 3 -> RegInode(1, 0)
                      [] n = 4 -> RegInode(2, 1)
                      [] OTHER -> NoInode],
     dirs |-> [l \in {16 * k : k \in 1..Len(shape)} |->
                  LET k == l \div 16
                  IN  ExtentChain([j \in 1..Slots(shape[k]) |->
                                      InSlot(es, sl, SlotBase(shape, k) + j, 1)],
                                  1, shape[k], tail, filetype, 1024)]]

InitDir ==
    /\ block_size = 1024
    /\ FileIdle
    /\ LinkIdle
    /\ call = CallIdle
    /\ rd = RdIdle
    /\ walk = WalkIdle
    /\ MountIdle
    /\ scope = "dir"
    /\ \E shape \in DirShapes, es \in SeqsUpTo(DirEntryChoices, MaxDirEntries),
          tail \in BOOLEAN, filetype \in BOOLEAN :
       \E sl \in [1..Len(es) -> 1..NSlots(shape)] :
          /\ \A i, j \in 1..Len(es) : i < j => sl[i] <= sl[j]
          /\ img = DirImage(shape, es, sl, tail, filetype)

(***************************************************************************)
(* SpecPath: a tree.  / holds a (inode 3) and b (inode 4); a is a          *)
(* directory holding b (inode 4) and maybe x (inode 5, a fifo), or a       *)
(* regular file; b is a regular file, a symlink or an empty directory.     *)
(***************************************************************************)
\* what a is: its entries if a directory
TreeA == {[dir |-> TRUE, names |-> <<B_NAME, X_NAME>>], [dir |-> TRUE, names |-> <<B_NAME>>],
          [dir |-> FALSE, names |-> <<>>]}

TreeB == {INODE_MODE_REG, INODE_MODE_LNK, INODE_MODE_DIR}

\* file type byte of a directory record
FileTypeCode(mode) ==
    CASE ModeType(mode) = INODE_MODE_REG  -> 1
      [] ModeType(mode) = INODE_MODE_DIR  -> 2
      [] ModeType(mode) = INODE_MODE_FIFO -> 5
      [] ModeType(mode) = INODE_MODE_LNK  -> 7
      [] OTHER -> 0

TreeIno(name) == CASE name = A_NAME -> 3 [] name = B_NAME -> 4 [] name = X_NAME -> 5

TreeImage(a, bmode) ==
    LET one(loc) == <<[len |-> 1, loc |-> loc]>>
        inodes == [n \in 1..8 |->
                      CASE n = INO_ROOT -> DirInode(one(16), 1024)
                        [] n = 3 -> IF a.dir THEN DirInode(one(17), 1024)
                                    ELSE RegInode(1, 0)
                        [] n = 4 -> IF bmode = INODE_MODE_REG THEN RegInode(2, 1)
                                    ELSE IF bmode = INODE_MODE_DIR
                                    THEN DirInode(one(18), 1024)
                                    ELSE [mode |-> INODE_MODE_LNK + 511, size_lo |-> 3,
                                          size_high |-> 0, block |-> TargetBlock(3)]
                        [] n = 5 -> [mode |-> INODE_MODE_FIFO + 420, size_lo |-> 0,
                                     size_high |-> 0, block |-> Zeros(BLOCK_LEN)]
                        [] OTHER -> NoInode]
        ent(name, ino) == [name |-> name, ino |-> ino,
                           ft |-> FileTypeCode(inodes[ino].mode)]
        dots(self, parent) == <<ent(DOT_DIR_NAME, self), ent(DOTDOT_DIR_NAME, parent)>>
        named(names) == [i \in 1..Len(names) |-> ent(names[i], TreeIno(names[i]))]
        block(entries) == DirBlock(entries, FALSE, TRUE, 1024)
    IN  [filetype |-> TRUE, ipg |-> 8, groups |-> 1, inodes |-> inodes,
         dirs |-> [l \in {16, 17, 18} |->
                      CASE l = 16 -> block(dots(2, 2) \o named(<<A_NAME, B_NAME>>))
                        [] l = 17 -> block(dots(3, 2) \o named(a.names))
                        [] l = 18 -> block(dots(4, 2))]]

InitPath ==
    /\ block_size = 1024
    /\ FileIdle
    /\ LinkIdle
    /\ call = CallIdle
    /\ rd = RdIdle
    /\ walk = WalkIdle
    /\ MountIdle
    /\ scope = "tree"
    /\ \E a \in TreeA, bmode \in TreeB : img = TreeImage(a, bmode)

NextDir ==
    \/ CallMetadata
    \/ CallReadDir
    \/ RdNext

SpecDir == InitDir /\ [][NextDir]_vars

\* the caller of an open ReadDir goes on calling next()
SpecDirLive == SpecDir /\ WF_vars(RdNext)

NextPath ==
    \/ CallReadDir
    \/ CallRead
    \/ CallReadLink
    \/ CallMetadata
    \/ CallOpen
    \/ RdNext
    \/ WalkBegin
    \/ WalkStep

SpecPath == InitPath /\ [][NextPath]_vars

(***************************************************************************)
(* superblock.rs, descriptor.rs, fs.rs: mounting, and get_inode on the     *)
(* handle.  The image of SpecMount is [size, sb, slots]: its length in     *)
(* bytes, the fields of the superblock record at offset 1024, and for each *)
(* 32-byte slot after that record the u32 at byte 8 of the slot: the       *)
(* inode_table_lo of a 32-byte descriptor; a 64-byte descriptor is two     *)
(* slots, its inode_table_hi at byte 8 of the second.  Slots past the      *)
(* listed ones hold zeros.                                                 *)
(*                                                                         *)
(* u32 values are kept modulo HiUnit and u64 values modulo U64.  Where an  *)
(* addition or multiplication leaves its width the program panics if the   *)
(* build has overflow checks (fs.checks) and wraps if not.                 *)
(***************************************************************************)
ZERO_PADDING_SIZE == 1024
SUPER_BLOCK_MAGIC == 61267
FEATURE_INCOMPAT_EXTENTS == 64
FEATURE_INCOMPAT_64BIT == 128
\* size of the records SuperBlock, BlockGroupDescriptor32, BlockGroupDescriptor
\* and Inode
SUPER_BLOCK_LEN == 1024
DESCRIPTOR32_LEN == 32
DESCRIPTOR_LEN == 64
INODE_LEN == 160

HasBit(v, bit) == (v \div bit) % 2 = 1

FeatureIncompat64bit(sb) == HasBit(sb.feature_incompat, FEATURE_INCOMPAT_64BIT)

FeatureIncompatExtents(sb) == HasBit(sb.feature_incompat, FEATURE_INCOMPAT_EXTENTS)

GetBlockCount(sb) == ComputeU64(sb.blocks_count_lo, sb.blocks_count_hi)

GetBlockSize(sb) == 1024 * 2^sb.log_block_size

\* `self.get_block_count() as u32 / self.blocks_per_group + 1`, and whether
\* the `+ 1` left the u32 range
GetBlockGroupCount(sb) ==
    [v       |-> (((GetBlockCount(sb) % HiUnit) \div sb.blocks_per_group) + 1) % HiUnit,
     wrapped |-> ((GetBlockCount(sb) % HiUnit) \div sb.blocks_per_group) + 1 >= HiUnit]

\* the two counts of SuperBlock::from_reader
BgCountFromBlock(sb) ==
    ((GetBlockCount(sb) + sb.blocks_per_group - 1) % U64) \div sb.blocks_per_group

BgCountFromInode(sb) ==
    ((sb.inodes_count + sb.inodes_per_group - 1) % HiUnit) \div sb.inodes_per_group

\* one of their additions leaves its width
BgCountWraps(sb) ==
    \/ GetBlockCount(sb) + sb.blocks_per_group >= U64
    \/ sb.inodes_count + sb.inodes_per_group >= HiUnit

\* SuperBlock::from_reader, the reader at ZERO_PADDING_SIZE.  A division by
\* zero panics in every build.
SuperBlockFromReader(image, checks) ==
    IF image.size < ZERO_PADDING_SIZE + SUPER_BLOCK_LEN
    THEN [kind |-> "err", err |-> [kind |-> "Bincode"]]
    ELSE IF image.sb.magic # SUPER_BLOCK_MAGIC
    THEN [kind |-> "err",
          err |-> [kind |-> "InvalidSuperBlockMagic", magic |-> image.sb.magic]]
    ELSE IF image.sb.blocks_per_group = 0 \/ image.sb.inodes_per_group = 0
    THEN [kind |-> "panic", err |-> NoErr]
    ELSE IF checks /\ BgCountWraps(image.sb)
    THEN [kind |-> "panic", err |-> NoErr]
    ELSE IF BgCountFromBlock(image.sb) # BgCountFromInode(image.sb)
    THEN [kind |-> "err",
          err |-> [kind |-> "BlockGroupCountMismatch",
                   blocks |-> BgCountFromBlock(image.sb),
                   inodes |-> BgCountFromInode(image.sb)]]
    ELSE [kind |-> "ok", err |-> NoErr]

\* the u32 at byte 8 of the k-th slot (from 1) after the superblock
SlotWord(image, k) == IF k <= Len(image.slots) THEN image.slots[k] ELSE 0

\* BlockGroupDescriptor::from_reader on the k-th record (from 0) it is asked for
DescriptorFromReader(image, k, is_64bit) ==
    IF is_64bit
    THEN [inode_table_lo |-> SlotWord(image, 2 * k + 1),
          inode_table_hi |-> SlotWord(image, 2 * k + 2)]
    ELSE [inode_table_lo |-> SlotWord(image, k + 1), inode_table_hi |-> 0]

GetInodeTableLoc(bgd) == ComputeU64(bgd.inode_table_lo, bgd.inode_table_hi)

DescriptorLen(is_64bit) == IF is_64bit THEN DESCRIPTOR_LEN ELSE DESCRIPTOR32_LEN

\* descriptors of length d the image holds whole after the superblock
DescriptorsHeld(image, d) == (image.size - (ZERO_PADDING_SIZE + SUPER_BLOCK_LEN)) \div d

\* FileSystem::from_reader from `let is_64bit` on: the loop reads `count`
\* descriptors one after the other, where the superblock record ended
LoadDescriptors(image, checks, count, is_64bit) ==
    IF count.wrapped /\ checks
    THEN [NoHandle EXCEPT !.status = "panic", !.checks = checks,
                          !.reader = ZERO_PADDING_SIZE + SUPER_BLOCK_LEN]
    ELSE IF DescriptorsHeld(image, DescriptorLen(is_64bit)) < count.v
    THEN [NoHandle EXCEPT !.status = "err", !.err = [kind |-> "Bincode"],
                          !.checks = checks, !.reader = image.size,
                          !.descs = DescriptorsHeld(image, DescriptorLen(is_64bit)) + 1]
    ELSE [status |-> "ok", err |-> NoErr, checks |-> checks, super_block |-> image.sb,
          block_group_descriptors |->
              [k \in 1..count.v |-> DescriptorFromReader(image, k - 1, is_64bit)],
          reader |-> ZERO_PADDING_SIZE + SUPER_BLOCK_LEN
                         + count.v * DescriptorLen(is_64bit),
          descs |-> count.v]

\* FileSystem::from_reader after SuperBlock::from_reader returned r
Mounted(image, checks, r) ==
    CASE r.kind = "panic" ->
            [NoHandle EXCEPT !.status = "panic", !.checks = checks,
                             !.reader = ZERO_PADDING_SIZE + SUPER_BLOCK_LEN]
      [] r.kind = "err" ->
            [NoHandle EXCEPT !.status = "err", !.err = r.err, !.checks = checks,
                             !.reader = IF r.err.kind = "Bincode" THEN image.size
                                        ELSE ZERO_PADDING_SIZE + SUPER_BLOCK_LEN]
      [] r.kind = "ok" ->
            IF ~FeatureIncompatExtents(image.sb)
            THEN [NoHandle EXCEPT !.status = "err", !.checks = checks,
                                  !.err = [kind |-> "Other", msg |-> "Only support extents."],
                                  !.reader = ZERO_PADDING_SIZE + SUPER_BLOCK_LEN]
            ELSE LoadDescriptors(image, checks, GetBlockGroupCount(image.sb),
                                 FeatureIncompat64bit(image.sb))

FileSystemFromReader(image, checks) ==
    Mounted(image, checks, SuperBlockFromReader(image, checks))

\* a * b and a + b in u64, b a power of two: the wrapped value, and whether
\* it wrapped
MulU64(a, b) == [v |-> (a % (U64 \div b)) * b, wrapped |-> a >= U64 \div b]

SumU64(a, b) == [v |-> (a + b) % U64, wrapped |-> a + b >= U64]

\* the record decoded at absolute offset pos: its first field, mode
InodeAt(pos) == [at |-> pos, mode |-> U16At(<<ImageByte(pos), ImageByte(pos + 1)>>, 1)]

\* get_inode from `self.reader.seek(..)` on, pos what the sum gave
InodeSought(h, image, ino, pos) ==
    IF pos.wrapped /\ h.checks
    THEN [called |-> TRUE, ino |-> ino, status |-> "panic", err |-> NoErr,
          seeks |-> <<>>, inode |-> <<>>]
    ELSE IF pos.v + INODE_LEN > image.size
    THEN [called |-> TRUE, ino |-> ino, status |-> "err", err |-> [kind |-> "Bincode"],
          seeks |-> <<pos.v>>, inode |-> <<>>]
    ELSE [called |-> TRUE, ino |-> ino, status |-> "ok", err |-> NoErr,
          seeks |-> <<pos.v>>, inode |-> InodeAt(pos.v)]

\* get_inode from `let pos` on, base the product and off the second term
InodeLocated(h, image, ino, base, off) ==
    IF base.wrapped /\ h.checks
    THEN [called |-> TRUE, ino |-> ino, status |-> "panic", err |-> NoErr,
          seeks |-> <<>>, inode |-> <<>>]
    ELSE InodeSought(h, image, ino,
                     [SumU64(base.v, off) EXCEPT !.wrapped = @ \/ base.wrapped])

\* get_inode on the handle h once `ino - 1` is ino1
InodeOfGroup(h, image, ino, ino1) ==
    IF ino1 \div h.super_block.inodes_per_group >= Len(h.block_group_descriptors)
    THEN [called |-> TRUE, ino |-> ino, status |-> "err",
          err |-> [kind |-> "BlockGroupDescriptorNotFound",
                   n |-> ino1 \div h.super_block.inodes_per_group],
          seeks |-> <<>>, inode |-> <<>>]
    ELSE InodeLocated(h, image, ino,
             MulU64(GetInodeTableLoc(h.block_group_descriptors[
                        (ino1 \div h.super_block.inodes_per_group) + 1]),
                    GetBlockSize(h.super_block)),
             (ino1 % h.super_block.inodes_per_group) * h.super_block.inode_size)

\* FileSystem::get_inode on the handle h
GetInodeOn(h, image, ino) ==
    IF ino = 0 /\ h.checks
    THEN [called |-> TRUE, ino |-> ino, status |-> "panic", err |-> NoErr,
          seeks |-> <<>>, inode |-> <<>>]
    ELSE InodeOfGroup(h, image, ino, IF ino = 0 THEN U64 - 1 ELSE ino - 1)

(***************************************************************************)
(* SpecMount: from_reader on an image, then get_inode on the handle.       *)
(***************************************************************************)
\* largest inode number handed to get_inode
MaxIno == 7

\* blocks_count_lo / blocks_count_hi: small counts, a count above 2^32, and
\* the largest
BlockCounts == {<<0, 0>>, <<4, 0>>, <<5, 0>>, <<8, 0>>, <<0, 1>>,
                <<HiUnit - 1, HiUnit - 1>>}

InodeCounts == {0, 2, 3, 4, 2 * (HiUnit \div 4), HiUnit - 1}

SuperBlocks ==
    {[magic |-> m, inodes_count |-> ic, blocks_count_lo |-> bc[1],
      blocks_count_hi |-> bc[2], blocks_per_group |-> bpg, inodes_per_group |-> ipg,
      log_block_size |-> lbs, inode_size |-> 256, feature_incompat |-> fi] :
        m \in {SUPER_BLOCK_MAGIC, 0}, ic \in InodeCounts, bc \in BlockCounts,
        bpg \in {0, 4}, ipg \in {0, 2}, lbs \in {0, 2},
        fi \in {2, 2 + FEATURE_INCOMPAT_EXTENTS, 2 + FEATURE_INCOMPAT_64BIT,
                2 + FEATURE_INCOMPAT_EXTENTS + FEATURE_INCOMPAT_64BIT}}

\* inode table words of the slots after the superblock
SlotWords == {<<>>, <<5, 1, 9, 0, 13>>, <<5, 0, 9, HiUnit \div 16, 13, 0>>}

\* a cut superblock, room for two slots, a large image
ImageSizes == {ZERO_PADDING_SIZE + 512,
               ZERO_PADDING_SIZE + SUPER_BLOCK_LEN + 2 * DESCRIPTOR32_LEN, 2^27}

InitMount ==
    /\ FileIdle
    /\ LinkIdle
    /\ call = CallIdle
    /\ rd = RdIdle
    /\ walk = WalkIdle
    /\ scope = "mount"
    /\ got = NoGot
    /\ xt = NoWalk
    /\ \E size \in ImageSizes, sb \in SuperBlocks, slots \in SlotWords :
          /\ img = [size |-> size, sb |-> sb, slots |-> slots]
          /\ block_size = GetBlockSize(sb)
    /\ fs \in {[NoHandle EXCEPT !.checks = c] : c \in BOOLEAN}

\* FileSystem::from_reader
Mount ==
    /\ scope = "mount"
    /\ fs.status = "none"
    /\ fs' = FileSystemFromReader(img, fs.checks)
    /\ UNCHANGED <<block_size, filevars, lk, fsvars, got, xt>>

\* the reader after get_inode returned g
ReaderAfter(h, image, g) ==
    CASE g.seeks = <<>>     -> h.reader
      [] g.status = "ok"    -> g.seeks[1] + INODE_LEN
      [] OTHER              -> IF g.seeks[1] > image.size THEN g.seeks[1] ELSE image.size

\* FileSystem::get_inode
CallGetInode ==
    /\ scope = "mount"
    /\ fs.status = "ok"
    /\ \E ino \in 0..MaxIno :
          /\ got' = GetInodeOn(fs, img, ino)
          /\ fs' = [fs EXCEPT !.reader = ReaderAfter(fs, img, got')]
    /\ UNCHANGED <<block_size, filevars, lk, fsvars, xt>>

NextMount ==
    \/ Mount
    \/ CallGetInode

SpecMount == InitMount /\ [][NextMount]_vars

(***************************************************************************)
(* SpecExtents: Inode::extents on an extent tree whose root sits in the    *)
(* inode and whose other nodes sit in blocks of the image.                 *)
(***************************************************************************)

\* extents a leaf node holds, children an index node holds
LeafSizes == 0..2

FanOuts == 0..2

\* a node of the tree: a leaf holding n extents, or an index over kids
LeafNodes == {[leaf |-> TRUE, n |-> k, kids |-> <<>>] : k \in LeafSizes}

IndexOver(S) ==
    {[leaf |-> FALSE, n |-> 0, kids |-> ks] :
        ks \in {s \in SeqsUpTo(S, 2) : Len(s) \in FanOuts}}

\* trees of height up to two, leaves at any depth
Trees == LeafNodes \cup IndexOver(LeafNodes \cup IndexOver(LeafNodes))

\* the nodes of a tree are named by their path from the root
SlotPaths(t) ==
    {<<>>} \cup {<<i>> : i \in 1..Len(t.kids)}
           \cup {<<i, j>> : i \in 1..Len(t.kids), j \in 1..2}

NodeAt(t, p) ==
    IF p = <<>> THEN t
    ELSE IF Len(p) = 1 THEN t.kids[p[1]]
    ELSE t.kids[p[1]].kids[p[2]]

NodePaths(t) ==
    {p \in SlotPaths(t) : Len(p) = 2 => p[2] <= Len(t.kids[p[1]].kids)}

\* eh_depth of a node: the levels below it
Height(node) ==
    IF node.leaf THEN 0
    ELSE IF \E k \in 1..Len(node.kids) : ~node.kids[k].leaf THEN 2
    ELSE 1

\* the block a node is stored in (the root, in the inode, counts as block 0)
BlockOf(p) ==
    IF p = <<>> THEN 0
    ELSE IF Len(p) = 1 THEN p[1]
    ELSE 2 * p[1] + p[2]

\* the k-th extent of the leaf stored in block b
LeafExtent(b, k) == [len |-> 1, loc |-> 16 * (b + 1) + k]

\* the magic a damaged header of block b carries
BadMagic(b) == b + 1

EncodeIdx(loc, k) == LE32(k) \o LE32(loc) \o LE16(0) \o LE16(0)

\* the bytes of the node at path p: header, then its extents or indexes
EncodeNode(t, p, bad) ==
    LET node  == NodeAt(t, p)
        magic == IF p \in bad THEN BadMagic(BlockOf(p)) ELSE EXTENT_HEADER_MAGIC
        recs  == IF node.leaf
                 THEN [k \in 1..node.n |->
                          EncodeExtent(LeafExtent(BlockOf(p), k), k - 1)]
                 ELSE [k \in 1..Len(node.kids) |->
                          EncodeIdx(BlockOf(Append(p, k)), k - 1)]
        count == IF node.leaf THEN node.n ELSE Len(node.kids)
    IN  LE16(magic) \o LE16(count) \o LE16(4)
            \o LE16(Height(node)) \o LE32(0)
            \o (IF count = 0 THEN <<>>
                ELSE IF count = 1 THEN recs[1] ELSE recs[1] \o recs[2])

TreeBlocks(t, bad) ==
    [b \in {BlockOf(p) : p \in NodePaths(t) \ {<<>>}} |->
        EncodeNode(t, CHOOSE p \in NodePaths(t) : BlockOf(p) = b, bad)]

TreeInode(t, bad) ==
    LET b == EncodeNode(t, <<>>, bad)
    IN  [mode |-> 33188, size_lo |-> 0, size_high |-> 0,
         block |-> b \o Zeros(BLOCK_LEN - Len(b))]

InitExtents ==
    /\ FileIdle
    /\ LinkIdle
    /\ call = CallIdle
    /\ rd = RdIdle
    /\ walk = WalkIdle
    /\ scope = "extents"
    /\ fs = NoHandle
    /\ got = NoGot
    /\ block_size = 1024
    /\ \E t \in Trees :
       \E bad \in {s \in SUBSET NodePaths(t) : Cardinality(s) <= 2} :
          /\ img = [tree |-> t, bad |-> bad, nodes |-> TreeBlocks(t, bad)]
          /\ xt = [NoWalk EXCEPT !.inode = TreeInode(t, bad)]

\* Inode::extents
CallExtents ==
    /\ scope = "extents"
    /\ ~xt.called
    /\ xt' = [xt EXCEPT !.called = TRUE, !.res = InodeExtents(xt.inode, block_size)]
    /\ UNCHANGED <<block_size, filevars, lk, fsvars, fs, got>>

NextExtents == CallExtents

SpecExtents == InitExtents /\ [][NextExtents]_vars

(***************************************************************************)
(* SpecWalk: Inode::extents one turn of its loop at a time, on images      *)
(* whose index records point at any block: trees, shared blocks, cycles.   *)
(***************************************************************************)
\* most items the model follows in the queue and in the result
MaxQueue == 4

MaxResult == 4

\* the blocks index records point at
GraphBlocks == {1, 2}

\* a node: a leaf of n extents, or an index whose records point at kids
GraphNodes ==
    {[leaf |-> TRUE, n |-> k, kids |-> <<>>] : k \in 0..1}
        \cup {[leaf |-> FALSE, n |-> 0, kids |-> ks] : ks \in SeqsUpTo(GraphBlocks, 2)}

\* the bytes of a node stored in block b; an index node says depth 1
\* whatever lies below it
EncodeGraphNode(node, b) ==
    LET recs  == IF node.leaf
                 THEN [k \in 1..node.n |-> EncodeExtent(LeafExtent(b, k), k - 1)]
                 ELSE [k \in 1..Len(node.kids) |-> EncodeIdx(node.kids[k], k - 1)]
        count == IF node.leaf THEN node.n ELSE Len(node.kids)
    IN  LE16(EXTENT_HEADER_MAGIC) \o LE16(count) \o LE16(4)
            \o LE16(IF node.leaf THEN 0 ELSE 1) \o LE32(0)
            \o (IF count = 0 THEN <<>>
                ELSE IF count = 1 THEN recs[1] ELSE recs[1] \o recs[2])

GraphInode(root) ==
    [mode |-> 33188, size_lo |-> 0, size_high |-> 0,
     block |-> EncodeGraphNode(root, 0)
                   \o Zeros(BLOCK_LEN - Len(EncodeGraphNode(root, 0)))]

InitWalk ==
    /\ FileIdle
    /\ LinkIdle
    /\ call = CallIdle
    /\ rd = RdIdle
    /\ walk = WalkIdle
    /\ scope = "extents"
    /\ fs = NoHandle
    /\ got = NoGot
    /\ block_size = 1024
    /\ \E root \in GraphNodes, g \in [GraphBlocks -> GraphNodes] :
          /\ img = [graph |-> g, root |-> root,
                    nodes |-> [b \in GraphBlocks |-> EncodeGraphNode(g[b], b)]]
          /\ xt = [NoWalk EXCEPT !.inode = GraphInode(root)]

\* Inode::extents returns r
WalkReturns(r) ==
    xt' = [xt EXCEPT !.called = TRUE, !.running = FALSE, !.queue = <<>>, !.res = r]

\* Inode::extents up to its loop: the root node is parsed from the inode
ExtentsBegin ==
    /\ scope = "extents"
    /\ ~xt.called
    /\ ~xt.running
    /\ \E root \in {ParseExtents(xt.inode.block)} :
          IF ~root.ok
          THEN WalkReturns([ok |-> FALSE, err |-> root.err, extents |-> <<>>, seeks |-> 0])
          ELSE xt' = [xt EXCEPT !.running = TRUE, !.queue = root.items]
    /\ UNCHANGED <<block_size, filevars, lk, fsvars, fs, got>>

\* one turn of `while let Some(item) = queue.pop_front()`
ExtentsTurn ==
    /\ scope = "extents"
    /\ xt.running
    /\ xt.queue # <<>>
    /\ \E item \in {Head(xt.queue)} :
          IF item.kind = "extent"
          THEN /\ Len(xt.res.extents) < MaxResult
               /\ xt' = [xt EXCEPT !.queue = Tail(@),
                                   !.res.extents = Append(@, [len |-> item.len,
                                                              loc |-> item.loc])]
          ELSE \E p \in {ParseExtents(NodeBytes(item.loc * block_size, block_size))} :
                  IF ~p.ok
                  THEN WalkReturns([ok |-> FALSE, err |-> p.err, extents |-> <<>>,
                                    seeks |-> 0])
                  ELSE /\ Len(Enqueue(Tail(xt.queue), p.items)) <= MaxQueue
                       /\ xt' = [xt EXCEPT !.queue = Enqueue(Tail(@), p.items)]
    /\ UNCHANGED <<block_size, filevars, lk, fsvars, fs, got>>

\* the queue is empty: `Ok(result)`
ExtentsEnd ==
    /\ scope = "extents"
    /\ xt.running
    /\ xt.queue = <<>>
    /\ WalkReturns([xt.res EXCEPT !.ok = TRUE])
    /\ UNCHANGED <<block_size, filevars, lk, fsvars, fs, got>>

NextWalk ==
    \/ ExtentsBegin
    \/ ExtentsTurn
    \/ ExtentsEnd

SpecWalk == InitWalk /\ [][NextWalk]_vars

\* the call runs on: each turn of the loop is taken when it can be
SpecWalkLive == SpecWalk /\ WF_vars(NextWalk)

(***************************************************************************)
(* SpecSession: several facade calls on one handle.  The handle is the     *)
(* reader, the superblock and the descriptor vector; read, read_link and   *)
(* metadata borrow it, read_dir and open take it.  The image is a tree of  *)
(* SpecPath, its inode table in blocks 8 and 9.                            *)
(***************************************************************************)
SessionSuperBlock ==
    [magic |-> SUPER_BLOCK_MAGIC, inodes_count |-> 8, blocks_count_lo |-> 32,
     blocks_count_hi |-> 0, blocks_per_group |-> 32, inodes_per_group |-> 8,
     log_block_size |-> 0, inode_size |-> 256,
     feature_incompat |-> 2 + FEATURE_INCOMPAT_EXTENTS]

SessionDescriptors == <<[inode_table_lo |-> 8, inode_table_hi |-> 0]>>

\* the reader once from_reader has read the superblock and one descriptor
FreshReader == ZERO_PADDING_SIZE + SUPER_BLOCK_LEN + DESCRIPTOR32_LEN

\* what from_reader returns on the image
FreshHandle(checks) ==
    [NoHandle EXCEPT !.status = "ok", !.checks = checks,
                     !.super_block = SessionSuperBlock,
                     !.block_group_descriptors = SessionDescriptors,
                     !.reader = FreshReader, !.descs = 1]

\* `reader.seek(SeekFrom::Start(pos))` with the reader at cur
\* fault: the seek is relative to where the reader stands
SeekFromCurrent(cur, pos) == cur + pos

SeekFromStart(cur, pos) == pos

\* `pos` of get_inode for an inode of a group the handle holds
InodePos(h, ino) ==
    GetInodeTableLoc(h.block_group_descriptors[
            ((ino - 1) \div h.super_block.inodes_per_group) + 1])
        * GetBlockSize(h.super_block)
        + ((ino - 1) % h.super_block.inodes_per_group) * h.super_block.inode_size

\* Inode::decode_from with the reader at pos: the inode of that slot of the
\* table, or what the bytes found elsewhere decode to
InodeDecodedFrom(h, pos) ==
    IF \E n \in 1..Len(img.inodes) : InodePos(h, n) = pos
    THEN img.inodes[CHOOSE n \in 1..Len(img.inodes) : InodePos(h, n) = pos]
    ELSE [mode |-> pos % 4096, size_lo |-> 0, size_high |-> 0,
          block |-> Zeros(BLOCK_LEN)]

\* FileSystem::get_inode on the handle h, its reader standing at h.reader
GetInodeFrom(h, ino) ==
    IF ~GetInode(ino).ok THEN GetInode(ino)
    ELSE [GetInode(ino) EXCEPT
             !.inode = InodeDecodedFrom(h, SeekFromStart(h.reader, InodePos(h, ino)))]

\* get_inode_by_path on the handle h: the RootDir turn of the loop reads the
\* root inode through the reader as the last call left it
GetInodeByPathOn(h, p) ==
    IF ~IsAbsolute(p) THEN GetInodeByPath(p)
    ELSE ResolveResult(
             ResolveRest(Components(p), 1, p,
                         Pushed(<<>>, ROOT_NAME, INO_ROOT, GetInodeFrom(h, INO_ROOT))),
             p)

\* the paths of the caller
SessionPaths ==
    {AbsPath(<<>>), AbsPath(<<A_NAME>>), AbsPath(<<B_NAME>>), AbsPath(<<A_NAME, B_NAME>>),
     AbsPath(<<A_NAME, X_NAME>>), AbsPath(<<A_NAME, DOTDOT_DIR_NAME, B_NAME>>),
     AbsPath(<<X_NAME>>), [abs |-> FALSE, segs |-> <<A_NAME>>]}

\* where a call that read from the image can leave the reader: after an
\* inode record, or at the end of a directory block
ReaderStops(h) ==
    {InodePos(h, n) + INODE_LEN : n \in {INO_ROOT, 4}}
        \cup {(l + 1) * GetBlockSize(h.super_block) : l \in {17}}

InitSession ==
    /\ block_size = GetBlockSize(SessionSuperBlock)
    /\ FileIdle
    /\ LinkIdle
    /\ call = CallIdle
    /\ rd = RdIdle
    /\ walk = WalkIdle
    /\ got = NoGot
    /\ xt = NoWalk
    /\ scope = "session"
    /\ \E a \in TreeA, bmode \in TreeB : img = TreeImage(a, bmode)
    /\ fs \in {FreshHandle(c) : c \in BOOLEAN}

\* the handle after the call: the reader moved if the image was read, the
\* superblock and the descriptors as they were; `taken`: self was moved
HandleAfter(h, p, out, taken, stop) ==
    [h EXCEPT !.reader = IF IsAbsolute(p) THEN stop ELSE h.reader,
              !.status = IF out.status = "panic" THEN "panic"
                         ELSE IF taken THEN "moved" ELSE "ok"]

\* a call of `op` on the handle; got keeps where the reader stood when the
\* call began and where its first seek took it
SessionCall(op, taken) ==
    /\ scope = "session"
    /\ fs.status = "ok"
    /\ \E p \in SessionPaths :
          /\ Returning(op, p, GetInodeByPathOn(fs, p))
          /\ \E stop \in ReaderStops(fs) :
                fs' = HandleAfter(fs, p, call'.res, taken, stop)
          /\ got' = [NoGot EXCEPT
                        !.called = IsAbsolute(p),
                        !.ino = IF IsAbsolute(p) THEN INO_ROOT ELSE 0,
                        !.seeks = IF IsAbsolute(p)
                                  THEN <<fs.reader,
                                         SeekFromStart(fs.reader, InodePos(fs, INO_ROOT))>>
                                  ELSE <<fs.reader>>]
    /\ UNCHANGED <<block_size, filevars, lk, img, scope, walk, xt>>

\* FileSystem::read
SessionRead == SessionCall("read", FALSE)

\* FileSystem::read_link
SessionReadLink == SessionCall("read_link", FALSE)

\* FileSystem::metadata
SessionMetadata == SessionCall("metadata", FALSE)

\* FileSystem::read_dir
SessionReadDir == SessionCall("read_dir", TRUE)

\* FileSystem::open
SessionOpen == SessionCall("open", TRUE)

NextSession ==
    \/ SessionRead
    \/ SessionReadLink
    \/ SessionMetadata
    \/ SessionReadDir
    \/ SessionOpen

SpecSession == InitSession /\ [][NextSession]_vars

(***************************************************************************)
(* Claims about the file reader (SpecFile).                                *)
(***************************************************************************)
Max(a, b) == IF a > b THEN a ELSE b

\* the sequence s without its first k elements
Drop(s, k) == [i \in 1..Max(0, Len(s) - k) |-> s[i + k]]

RECURSIVE Capacity(_, _, _)
Capacity(extents, bs, i) ==
    IF i > Len(extents) THEN 0 ELSE extents[i].len * bs + Capacity(extents, bs, i + 1)

\* the extent list covers the inode's size and lies inside the image
Covered == Capacity(f_extents, block_size, 1) >= f_len

\* what FileSystem::read returns for the inode
Content == InodeReadBytes(f_extents, f_len, block_size).data

\* C1: FileSystem::read of a regular file of size S returns exactly S bytes,
\* whatever extent list the extent walk returned for it.
C1_ReadReturnsSizeBytes ==
    (fs_read.called /\ fs_read.ok) => Len(fs_read.data) = f_len

\* C2: on a freshly opened file, the bytes of successive File::read calls, from
\* cursor 0 until a call into a non-empty buffer returns 0, are the bytes
\* FileSystem::read returns (stated for extent lists that cover the size, with
\* no call failing).
C2_OpenReadEqualsRead ==
    (f_state = "open" /\ f_eof /\ ~f_err /\ Covered /\ fs_read.called /\ fs_read.ok)
        => f_acc = fs_read.data

\* the position a seek call asks for
SeekTarget ==
    CASE f_last.op = "start"   -> f_last.arg
      [] f_last.op = "end"     -> f_len + f_last.arg
      [] f_last.op = "current" -> f_last.before + f_last.arg
      [] OTHER                 -> -1

\* C3: a seek to a target k in 0..len (Start(k), End(-(len-k)) with k < len,
\* Current(k - cursor)) sets the cursor to k and returns k, and reading to
\* exhaustion afterwards returns the file's bytes k..len (stated for extent
\* lists that cover the size, with no call failing).
C3_SeekThenReadTail ==
    /\ (/\ f_last.op \in {"start", "end", "current"}
        /\ SeekTarget \in 0..f_len
        /\ (f_last.op = "end" => f_last.arg < 0)
        /\ f_last.before <= MaxPos)
           => (f_last.ok /\ f_current = SeekTarget /\ f_last.ret = SeekTarget)
    /\ (f_state = "seeked" /\ f_from <= f_len /\ f_eof /\ ~f_err /\ Covered)
           => f_acc = Drop(Content, f_from)

\* C4: a read into a buffer of length b with the cursor at c returns
\* n <= min(b, max(0, len - c)); it returns 0 and leaves the cursor alone when
\* c >= len or b = 0, and otherwise moves the cursor by exactly n; a cursor
\* that was <= len is never moved beyond len.
C4_ReadWithinFile ==
    f_last.op = "read" =>
        LET b == f_last.arg
            c == f_last.before
        IN  /\ f_last.ok => /\ f_last.ret <= Min(b, Max(0, f_len - c))
                            /\ f_current = c + f_last.ret
                            /\ Len(f_last.data) = f_last.ret
            /\ (c >= f_len \/ b = 0) =>
                   (f_last.ok /\ f_last.ret = 0 /\ f_current = c)
            /\ c <= f_len => f_current <= f_len

\* a read that crossed from one extent into the next and stopped at the end
\* of the file with the buffer not full
C4_Witness ==
    /\ f_last.op = "read" /\ f_last.ok
    /\ Len(f_extents) = 2
    /\ f_last.before < f_extents[1].len * block_size
    /\ f_current > f_extents[1].len * block_size
    /\ f_last.ret > 0 /\ f_last.ret < f_last.arg
    /\ f_current = f_len

(***************************************************************************)
(* Claims about symlinks (SpecLink).                                       *)
(***************************************************************************)
\* C7: for a symlink inode of size L, read_link returns the first L bytes of
\* the 60-byte block field when L <= 60, without parsing an extent header and
\* without a call on the reader; when L > 60 it returns what the extent-based
\* full read of the inode returns.
C7_ReadLinkInlineOrExtents ==
    lk.link.called =>
        LET L == GetSize(lk.inode)
        IN  /\ L <= 60 => /\ lk.link.ok
                          /\ lk.link.data = [i \in 1..L |-> lk.inode.block[i]]
                          /\ ~lk.link.parsed
                          /\ lk.link.io = 0
            /\ (L > 60 /\ lk.full.called) => lk.link = lk.full

\* read_link on a 60-byte target stored inline, where the block field holds no
\* extent header
C7_Witness ==
    /\ lk.link.called /\ lk.link.ok
    /\ GetSize(lk.inode) = 60
    /\ Len(lk.link.data) = 60
    /\ U16At(lk.inode.block, 1) # EXTENT_HEADER_MAGIC

\* read_link on a 61-byte target read through an extent
C7_WitnessExtents ==
    /\ lk.link.called /\ lk.link.ok /\ lk.full.called
    /\ GetSize(lk.inode) = 61
    /\ Len(lk.link.data) = 61
    /\ lk.link.io > 0

(***************************************************************************)
(* Claims about directory iteration and name lookup (SpecDir).             *)
(***************************************************************************)
DotNames == {DOT_DIR_NAME, DOTDOT_DIR_NAME}

\* the first offset at or after `off` of a chain that holds no `.` / `..` record
RECURSIVE SkipDots(_, _)
SkipDots(chain, off) ==
    LET at == RecordAt(chain, 1, off)
    IN  IF at.found /\ at.rec.name \in DotNames
        THEN SkipDots(chain, off + at.rec.rec_len)
        ELSE off

\* the chain the last yielded entry was read from
LastChain == img.dirs[rd.it.extents[rd.last.idx + 1].loc]

\* C6: no item a ReadDir yields is named "." or ".."; the records so named
\* between the offset the call started at and the yielded record are
\* consumed: the offset after the call is the start offset plus their
\* rec_len plus the rec_len of the yielded record, wherever they lie.
C6_NeverYieldsDots ==
    rd.open =>
        /\ \A i \in 1..Len(rd.items) : GetNameStr(rd.items[i]) \notin DotNames
        /\ rd.last.kind = "ok" =>
              LET at == SkipDots(LastChain, rd.last.from)
                  r  == RecordAt(LastChain, 1, at)
              IN  /\ r.found
                  /\ r.rec.name = rd.last.e.name
                  /\ r.rec.inode = rd.last.e.inode
                  /\ rd.last.to = at + r.rec.rec_len

\* an entry was yielded after a `.` / `..` record that lies beyond the start
\* of the first block
C6_Witness ==
    /\ rd.open
    /\ rd.last.kind = "ok"
    /\ rd.last.idx > 0 \/ rd.last.from > 0
    /\ SkipDots(LastChain, rd.last.from) > rd.last.from
    /\ rd.last.e.inode # 0

\* the records of a directory in on-disk order: extent after extent
RECURSIVE RecordsOf(_, _)
RecordsOf(extents, k) ==
    IF k > Len(extents) THEN <<>>
    ELSE img.dirs[extents[k].loc] \o RecordsOf(extents, k + 1)

\* the inode number of the first entry (a record in use: inode # 0) of the
\* records named n, 0 if there is none
RECURSIVE FirstNamed(_, _, _)
FirstNamed(records, n, i) ==
    IF i > Len(records) THEN 0
    ELSE IF records[i].inode # 0 /\ records[i].name = n THEN records[i].inode
    ELSE FirstNamed(records, n, i + 1)

RootRecords == RecordsOf(InodeExtents(img.inodes[INO_ROOT], block_size).extents, 1)

\* C8: resolving "/n" yields the inode of the first entry named n in on-disk
\* order over all extents and all blocks of the root directory, and
\* NoSuchFileOrDirectory("/n") exactly when no entry is named n.
C8_FirstEntryInDiskOrder ==
    (call.op = "metadata" /\ Len(call.path.segs) = 1) =>
        LET n   == call.path.segs[1]
            ino == FirstNamed(RootRecords, n, 1)
        IN  IF ino # 0
            THEN call.res.status = "ok" /\ call.res.inode = img.inodes[ino]
            ELSE /\ call.res.status = "err"
                 /\ call.res.err = PathErr("NoSuchFileOrDirectory", call.path)

(***************************************************************************)
(* Claims about path resolution and the facade (SpecPath).                 *)
(***************************************************************************)
NormalNames == TreeSegs \ DotNames

\* get_inode_by_path has returned on the stepped path
Walked == walk.status \in {"ok", "err"}

\* the inode number and inode a finished resolution of p ends on
ResolvedTop(p) ==
    LET s == ResolveLoop(Components(p), 1, <<>>, p)
    IN  s.stack[Len(s.stack)]

WalkTop == walk.stack[Len(walk.stack)]

SameAs(p) ==
    /\ walk.status = "ok"
    /\ WalkTop.ino = ResolvedTop(p).ino
    /\ WalkTop.inode = ResolvedTop(p).inode

\* C5 as stated: for all names a, b, x such that "/a/b" resolves, "/a/./b"
\* and "/a/x/../b" resolve to the inode of "/a/b".
C5_DotAndDotDotIdempotent ==
    Walked =>
        \A a, b, x \in NormalNames :
            /\ (/\ walk.path = AbsPath(<<a, DOT_DIR_NAME, b>>)
                /\ GetInodeByPath(AbsPath(<<a, b>>)).ok)
                   => SameAs(AbsPath(<<a, b>>))
            /\ (/\ walk.path = AbsPath(<<a, x, DOTDOT_DIR_NAME, b>>)
                /\ GetInodeByPath(AbsPath(<<a, b>>)).ok)
                   => SameAs(AbsPath(<<a, b>>))

\* C5, amended: for all names a, b, x such that "/a/b" and "/a/x" resolve,
\* "/a/./b" and "/a/x/../b" resolve to the inode of "/a/b".
C5_IdempotentWhereXResolves ==
    Walked =>
        \A a, b, x \in NormalNames :
            /\ (/\ walk.path = AbsPath(<<a, DOT_DIR_NAME, b>>)
                /\ GetInodeByPath(AbsPath(<<a, b>>)).ok)
                   => SameAs(AbsPath(<<a, b>>))
            /\ (/\ walk.path = AbsPath(<<a, x, DOTDOT_DIR_NAME, b>>)
                /\ GetInodeByPath(AbsPath(<<a, b>>)).ok
                /\ GetInodeByPath(AbsPath(<<a, x>>)).ok)
                   => SameAs(AbsPath(<<a, b>>))

\* "/a/x/../b" was resolved where x is another entry of /a than b
C5_Witness ==
    /\ walk.status = "ok"
    /\ walk.path = AbsPath(<<A_NAME, X_NAME, DOTDOT_DIR_NAME, B_NAME>>)
    /\ WalkTop.ino = 4

\* a facade call has returned
Returns == call.op # "none" /\ call.res.status # "panic"

TypeErrors == {"IsNotRegular", "IsNotDirecotry", "IsNotSymlink"}

\* the error and the file type (mode & 0xF000, in units of 0x1000) of an operation
Wants(op) ==
    CASE op \in {"read", "open"} -> [err |-> "IsNotRegular", type |-> 8]
      [] op = "read_dir"         -> [err |-> "IsNotDirecotry", type |-> 4]
      [] op = "read_link"        -> [err |-> "IsNotSymlink", type |-> 10]
      [] OTHER                   -> [err |-> "none", type |-> 0]

\* C9: on a path that resolves to an inode of mode m, read and open return
\* IsNotRegular(path) iff m & 0xF000 # 0x8000, read_dir IsNotDirecotry(path)
\* iff # 0x4000, read_link IsNotSymlink(path) iff # 0xA000, metadata
\* succeeds; a type error comes before the extents of the inode are walked
\* or its data read; on a path that does not resolve every operation returns
\* the error of the resolution.
C9_TypeChecks ==
    Returns =>
        LET i == GetInodeByPath(call.path)
            w == Wants(call.op)
            isTypeErr == /\ call.res.status = "err"
                         /\ call.res.err = PathErr(w.err, call.path)
        IN  IF i.ok
            THEN /\ call.op = "metadata" =>
                        call.res.status = "ok" /\ call.res.inode = i.inode
                 /\ call.op # "metadata" =>
                        (isTypeErr <=> (i.inode.mode \div 4096) % 16 # w.type)
                 /\ (call.res.status = "err" /\ call.res.err.kind \in TypeErrors) =>
                        isTypeErr /\ ~call.res.parsed /\ call.res.io = 0
            ELSE call.res.status = "err" /\ call.res.err = i.err

\* read returned IsNotRegular on a symlink whose block field holds its
\* target, no extent header
C9_Witness ==
    /\ call.op = "read"
    /\ call.res.err.kind = "IsNotRegular"
    /\ IsSymlink(GetInodeByPath(call.path).inode)
    /\ ~ParseExtents(GetInodeByPath(call.path).inode.block).ok

\* C10: while an absolute path is resolved, from the first component on the
\* stack is not empty and has the root inode (number 2) at the bottom; a
\* `..` met on a stack of one element returns UnexpectedParentDir(path), on
\* a longer stack it removes the top element and nothing else; no
\* resolution and no call returns InvalidPath.
C10_StackKeepsRoot ==
    /\ (walk.path.abs /\ walk.step \notin {"none", "check"}) =>
          /\ Len(walk.stack) >= 1
          /\ walk.stack[1].ino = 2
          /\ walk.stack[1].inode = img.inodes[2]
          /\ walk.step = "ParentDir" =>
                IF Len(walk.before) = 1
                THEN /\ walk.status = "err"
                     /\ walk.err = PathErr("UnexpectedParentDir", walk.path)
                ELSE /\ walk.status = "running"
                     /\ walk.stack = SubSeq(walk.before, 1, Len(walk.before) - 1)
    /\ walk.err.kind # "InvalidPath"
    /\ call.res.err.kind # "InvalidPath"

\* a `..` removed the top of a stack of three
C10_Witness ==
    /\ walk.step = "ParentDir"
    /\ walk.status = "running"
    /\ Len(walk.before) = 3
    /\ Len(walk.stack) = 2

(***************************************************************************)
(* C11 (SpecPath).  A facade operation on a path that is not absolute      *)
(* returns RequireAbsolutePath(path) and nothing else: no inode was        *)
(* fetched, no extent header parsed, no call made on the reader; and       *)
(* get_inode_by_path fails at its first test, before the first turn of its *)
(* loop, the only place where it uses the reader.                          *)
(***************************************************************************)
C11_RelativePathRejectedFirst ==
    /\ call.op # "none" /\ ~call.path.abs =>
          /\ call.res = FsErr(PathErr("RequireAbsolutePath", call.path))
          /\ call.res.io = 0 /\ ~call.res.parsed
          /\ ~rd.open
    /\ walk.status # "idle" /\ ~walk.path.abs =>
          /\ walk.status = "err"
          /\ walk.err = PathErr("RequireAbsolutePath", walk.path)
          /\ walk.step = "check" /\ walk.i = 0 /\ walk.stack = <<>>

\* read_link was called on the relative path `b` of an image where /b is a
\* symlink, and returned
C11_Witness ==
    /\ call.op = "read_link"
    /\ call.path = [abs |-> FALSE, segs |-> <<B_NAME>>]
    /\ IsSymlink(img.inodes[4])
    /\ call.res.status = "err"

(***************************************************************************)
(* C12 (SpecMount).  from_reader succeeds only if the superblock has magic *)
(* 0xEF53, ceil(block_count / blocks_per_group) equals                     *)
(* ceil(inodes_count / inodes_per_group) and the EXTENTS bit is set; an    *)
(* image failing several of these reports the first of                     *)
(* InvalidSuperBlockMagic, BlockGroupCountMismatch, the EXTENTS error; and *)
(* no descriptor is read once one has failed.  The counts are those of the *)
(* numbers in the superblock, whatever their size; group sizes of 0, where *)
(* there is no count, are left out.                                        *)
(***************************************************************************)
CeilDiv(a, b) == (a + b - 1) \div b

MagicOk == img.sb.magic = SUPER_BLOCK_MAGIC

GroupCountsAgree ==
    CeilDiv(GetBlockCount(img.sb), img.sb.blocks_per_group)
        = CeilDiv(img.sb.inodes_count, img.sb.inodes_per_group)

MountChecked ==
    /\ scope = "mount"
    /\ fs.status # "none"
    /\ img.size >= ZERO_PADDING_SIZE + SUPER_BLOCK_LEN
    /\ img.sb.blocks_per_group # 0
    /\ img.sb.inodes_per_group # 0

C12_MountChecksInOrder ==
    MountChecked =>
        /\ fs.status = "ok" =>
              MagicOk /\ GroupCountsAgree /\ FeatureIncompatExtents(img.sb)
        /\ ~MagicOk =>
              fs.status = "err" /\ fs.err.kind = "InvalidSuperBlockMagic"
        /\ MagicOk /\ ~GroupCountsAgree =>
              fs.status = "err" /\ fs.err.kind = "BlockGroupCountMismatch"
        /\ MagicOk /\ GroupCountsAgree /\ ~FeatureIncompatExtents(img.sb) =>
              fs.status = "err" /\ fs.err.kind = "Other"
        /\ ~(MagicOk /\ GroupCountsAgree /\ FeatureIncompatExtents(img.sb)) =>
              fs.descs = 0 /\ fs.block_group_descriptors = <<>>

(***************************************************************************)
(* C17 (SpecMount).  After a successful mount the descriptor vector holds  *)
(* floor(block_count / blocks_per_group) + 1 entries, block_count being    *)
(* the 64-bit (blocks_count_hi << 32) | blocks_count_lo; and get_inode     *)
(* never returns BlockGroupDescriptorNotFound for an inode number in       *)
(* 1..=inodes_count.                                                       *)
(***************************************************************************)
C17_DescriptorVectorCoversGroups ==
    scope = "mount" /\ fs.status = "ok" =>
        /\ Len(fs.block_group_descriptors)
               = (GetBlockCount(fs.super_block) \div fs.super_block.blocks_per_group) + 1
        /\ got.called /\ got.ino >= 1 /\ got.ino <= fs.super_block.inodes_count =>
               ~(got.status = "err" /\ got.err.kind = "BlockGroupDescriptorNotFound")

(***************************************************************************)
(* C18 (SpecMount).  For an inode number ino >= 1 and                      *)
(* g = (ino - 1) div inodes_per_group: if the descriptor vector has no     *)
(* index g, get_inode returns BlockGroupDescriptorNotFound(g) and has not  *)
(* used the reader; otherwise it seeks once, to                            *)
(* inode_table_loc(g) * block_size                                         *)
(*     + ((ino - 1) mod inodes_per_group) * inode_size,                    *)
(* and returns the inode decoded there (the decoding fails if the image    *)
(* ends before the record does).  inode_table_loc(g) is                    *)
(* (inode_table_hi << 32) | inode_table_lo of descriptor g on disk, its    *)
(* high half 0 without the 64BIT feature.                                  *)
(***************************************************************************)
\* inode_table_loc of the descriptor g (from 0) in the image
TableLoc(g) ==
    IF FeatureIncompat64bit(img.sb)
    THEN SlotWord(img, 2 * g + 2) * HiUnit + SlotWord(img, 2 * g + 1)
    ELSE SlotWord(img, g + 1)

\* the offset is one a reader has: below 2^64
OffsetFits(loc, bs, off) == loc < U64 \div bs /\ loc * bs + off < U64

InodeDecodedAt(pos) ==
    /\ got.seeks = <<pos>>
    /\ IF pos + INODE_LEN <= img.size
       THEN got.status = "ok" /\ got.inode = InodeAt(pos)
       ELSE got.status = "err" /\ got.err.kind = "Bincode"

GroupOf(ino) == (ino - 1) \div fs.super_block.inodes_per_group

IndexInGroup(ino) == (ino - 1) % fs.super_block.inodes_per_group

C18_InodeOffset ==
    scope = "mount" /\ got.called /\ got.ino >= 1 =>
        IF GroupOf(got.ino) >= Len(fs.block_group_descriptors)
        THEN /\ got.status = "err"
             /\ got.err = [kind |-> "BlockGroupDescriptorNotFound", n |-> GroupOf(got.ino)]
             /\ got.seeks = <<>>
        ELSE /\ OffsetFits(TableLoc(GroupOf(got.ino)), block_size,
                           IndexInGroup(got.ino) * fs.super_block.inode_size)
             /\ InodeDecodedAt(TableLoc(GroupOf(got.ino)) * block_size
                                   + IndexInGroup(got.ino) * fs.super_block.inode_size)

(***************************************************************************)
(* C13 (SpecDir).  For a directory without Tail records the items ReadDir  *)
(* yields are the records other than `.` and `..` of extent 0, then of     *)
(* extent 1, each extent in ascending offset and each record once: what    *)
(* has been yielded is a prefix of that list, and all of it once the       *)
(* iterator is past its last extent; and after yielding an entry the       *)
(* iterator has left the extent only if its offset reached                 *)
(* extents[i].len * block_size.                                            *)
(***************************************************************************)
HasTail(records) ==
    \E i \in 1..Len(records) : records[i].inode = 0 /\ records[i].rec_len = TAIL_REC_LEN

\* inode, name and rec_len of the records that are not `.` or `..`, in order
RECURSIVE NamedKeys(_, _)
NamedKeys(records, i) ==
    IF i > Len(records) THEN <<>>
    ELSE (IF records[i].name \in DotNames THEN <<>>
          ELSE <<<<records[i].inode, records[i].name, records[i].rec_len>>>>)
             \o NamedKeys(records, i + 1)

ItemKeys(items) == [i \in 1..Len(items) |-> <<items[i].inode, items[i].name,
                                              items[i].rec_len>>]

IsPrefix(s, t) == Len(s) <= Len(t) /\ \A i \in 1..Len(s) : s[i] = t[i]

C13_YieldsEveryEntryInOrder ==
    rd.open /\ ~HasTail(RecordsOf(rd.it.extents, 1)) =>
        /\ IsPrefix(ItemKeys(rd.items), NamedKeys(RecordsOf(rd.it.extents, 1), 1))
        /\ rd.it.idx >= Len(rd.it.extents) =>
              ItemKeys(rd.items) = NamedKeys(RecordsOf(rd.it.extents, 1), 1)
        /\ rd.last.kind = "ok" /\ rd.it.idx > rd.last.idx =>
              rd.last.to >= rd.it.extents[rd.last.idx + 1].len * block_size

(***************************************************************************)
(* C14 (SpecDir).  A Tail record (inode 0, rec_len 12) at the iterator's   *)
(* position: the record read_entry decodes next, after the `.` and `..`    *)
(* it skips.                                                               *)
(***************************************************************************)
PositionChain(it) == img.dirs[it.extents[it.idx + 1].loc]

TailAtPosition(it) ==
    /\ it.idx < Len(it.extents)
    /\ LET at == SkipDots(PositionChain(it), it.extent_offset)
       IN  EntryFromReader(it.extents[it.idx + 1].loc, at,
                           it.extents[it.idx + 1].len * block_size - at,
                           img.filetype).kind = "tail"

\* C14 as claimed: the call that decodes the Tail returns None and leaves
\* the iterator past its last extent, so that every later call returns None
\* too, whatever the later extents hold.
C14_TailEndsIteration ==
    [][rd.open /\ TailAtPosition(rd.it) =>
          rd'.last.kind = "none" /\ rd'.it.idx >= Len(rd'.it.extents)]_vars

\* the iterator at the start of the extent after its own
AtNextExtent(it) == [extents |-> it.extents, idx |-> it.idx + 1, extent_offset |-> 0]

\* the outcome n of a call, as the state after the call shows it
CallGave(n) ==
    /\ rd'.last.kind = n.kind
    /\ rd'.it = n.it
    /\ IF n.kind = "ok"
       THEN /\ rd'.last.e = n.e
            /\ rd'.last.idx = n.from.idx
            /\ rd'.last.from = n.from.offset
            /\ rd'.items = Append(rd.items, n.e)
       ELSE rd'.items = rd.items

\* C14, amended: a Tail ends the extent it is in, not the iteration.  The
\* call that decodes it returns what a call at the start of the next extent
\* returns: the first entry the later extents give (or the error of reading
\* it), and None, the iterator past its last extent, only if they give none.
C14_TailEndsExtent ==
    [][rd.open /\ TailAtPosition(rd.it) =>
          /\ CallGave(ReadDirNext(AtNextExtent(rd.it), block_size, img.filetype))
          /\ rd'.last.kind = "ok" => rd'.last.idx > rd.it.idx
          /\ rd'.last.kind = "none" => rd'.it.idx >= Len(rd'.it.extents)]_vars

\* an entry of the second extent was yielded after an entry of the first,
\* each block of which ends with a Tail
C14_Witness ==
    /\ rd.open
    /\ Len(rd.it.extents) = 2
    /\ HasTail(img.dirs[rd.it.extents[1].loc])
    /\ Len(rd.items) >= 2
    /\ rd.items[1].inode # 0
    /\ rd.last.kind = "ok"
    /\ rd.last.idx = 1
    /\ rd.last.e.inode # 0

\* the damaged node the walk meets first: nodes are visited level by level,
\* which is the order of their blocks in these images
FirstBad ==
    CHOOSE p \in img.bad : \A q \in img.bad : BlockOf(p) <= BlockOf(q)

\* nodes read from the image up to and including the one at path p
ReadUpTo(p) ==
    Cardinality({q \in NodePaths(img.tree) : 0 < BlockOf(q) /\ BlockOf(q) <= BlockOf(p)})

\* C15: Inode::extents returns Ok only if the header of the root and of every
\* node it reads carries the magic 0xF30A; at the first header with another
\* magic m it returns InvalidExtentHeaderMagic(m), reads no further node and
\* hands out no part of the list.
C15_BadMagicStopsWalk ==
    (scope = "extents" /\ xt.called) =>
        IF img.bad = {}
        THEN xt.res.ok
        ELSE /\ ~xt.res.ok
             /\ xt.res.err = [kind |-> "InvalidExtentHeaderMagic",
                              magic |-> BadMagic(BlockOf(FirstBad))]
             /\ xt.res.extents = <<>>
             /\ xt.res.seeks = ReadUpTo(FirstBad)

\* a node two levels below the root is damaged, after leaves were read
C15_Witness ==
    /\ scope = "extents"
    /\ xt.called
    /\ img.bad = {<<2, 1>>}
    /\ img.tree.kids[1].leaf
    /\ img.tree.kids[1].n = 2
    /\ xt.res.err = [kind |-> "InvalidExtentHeaderMagic", magic |-> BadMagic(5)]
    /\ xt.res.seeks = 3

\* the extents of the leaf at path p, as the image holds them
ExtentsOf(t, p) ==
    [k \in 1..NodeAt(t, p).n |-> LeafExtent(BlockOf(p), k)]

\* the extents below the node at path p, depth first and left to right
RECURSIVE DepthFirst(_, _, _)
DepthFirst(t, p, k) ==
    IF NodeAt(t, p).leaf THEN ExtentsOf(t, p)
    ELSE IF k > Len(NodeAt(t, p).kids) THEN <<>>
    ELSE DepthFirst(t, Append(p, k), 1) \o DepthFirst(t, p, k + 1)

\* the extents of the leaves stored in blocks b.., level by level
RECURSIVE LevelOrder(_, _)
LevelOrder(t, b) ==
    IF b > 6 THEN <<>>
    ELSE (IF \E p \in NodePaths(t) : BlockOf(p) = b /\ NodeAt(t, p).leaf
          THEN ExtentsOf(t, CHOOSE p \in NodePaths(t) : BlockOf(p) = b)
          ELSE <<>>) \o LevelOrder(t, b + 1)

\* every extent of the tree sits at the same depth
SameDepth(t) ==
    \A p, q \in NodePaths(t) :
        (NodeAt(t, p).n > 0 /\ NodeAt(t, q).n > 0) => Len(p) = Len(q)

\* C19: Inode::extents returns the extents in breadth-first order, level by
\* level and left to right within a level; on a tree whose extents all sit
\* at the same depth this is the depth-first, left-to-right order.
C19_BreadthFirstOrder ==
    (scope = "extents" /\ xt.called /\ xt.res.ok) =>
        /\ xt.res.extents = LevelOrder(img.tree, 0)
        /\ SameDepth(img.tree) => xt.res.extents = DepthFirst(img.tree, <<>>, 1)

\* two index nodes with two leaves each, five extents two levels down
C19_Witness ==
    /\ scope = "extents"
    /\ xt.called
    /\ xt.res.ok
    /\ SameDepth(img.tree)
    /\ Len(img.tree.kids) = 2
    /\ \A i \in 1..2 : Len(img.tree.kids[i].kids) = 2
    /\ Len(xt.res.extents) = 5
    /\ xt.res.extents = DepthFirst(img.tree, <<>>, 1)

\* a tree with extents at two depths, where the two orders differ
C19_UnevenTreeDiffers ==
    /\ scope = "extents"
    /\ xt.called
    /\ xt.res.ok
    /\ ~SameDepth(img.tree)
    /\ xt.res.extents # DepthFirst(img.tree, <<>>, 1)

\* the extent whose cumulative byte range holds logical position p, from
\* extent i on, `start` being where extent i begins; 0 if there is none
RECURSIVE ExtentHolding(_, _, _, _, _)
ExtentHolding(extents, bs, p, i, start) ==
    IF i > Len(extents) THEN [i |-> 0, start |-> 0]
    ELSE IF p < start + extents[i].len * bs THEN [i |-> i, start |-> start]
    ELSE ExtentHolding(extents, bs, p, i + 1, start + extents[i].len * bs)

\* the physical byte offset of logical position p held by extent h.i
PhysicalOf(extents, bs, p, h) == extents[h.i].loc * bs + (p - h.start)

\* C16: every byte a successful File::read returns for logical position p is
\* the image byte at E[i].block_loc * block_size + (p - start_i), i the first
\* extent whose cumulative range holds p; no read runs past the end of the
\* extent it was issued for.
C16_BytesFromTheirExtent ==
    (f_last.op = "read" /\ f_last.ok) =>
        \A k \in 1..Len(f_last.data) :
            /\ ExtentHolding(f_extents, block_size, f_last.before + k - 1, 1, 0).i > 0
            /\ f_last.data[k] =
                  ImageByte(PhysicalOf(f_extents, block_size, f_last.before + k - 1,
                       ExtentHolding(f_extents, block_size, f_last.before + k - 1, 1, 0)))

\* C20: on an unchanging image a facade call returns what the same call
\* returns on a freshly mounted handle, wherever earlier read, read_link and
\* metadata calls left the reader; and no call changes the superblock or the
\* descriptor vector of the handle.
C20_ResultsIndependentOfHistory ==
    scope = "session" =>
        /\ fs.super_block = SessionSuperBlock
        /\ fs.block_group_descriptors = SessionDescriptors
        /\ (call.op # "none" /\ call.res.status # "panic") =>
              call.res = Facade(call.op, call.path,
                                GetInodeByPathOn(FreshHandle(fs.checks), call.path))

\* a file was read through .. after an earlier call left the reader at the
\* end of a directory block
C20_Witness ==
    /\ scope = "session"
    /\ call.op = "read"
    /\ call.path = AbsPath(<<A_NAME, DOTDOT_DIR_NAME, B_NAME>>)
    /\ call.res.status = "ok"
    /\ Len(call.res.data) > 0
    /\ got.seeks[1] = 18 * 1024
    /\ fs.status = "ok"

\* next() has returned None, or would: `self.extents.get(self.idx)?`
IterationOver == rd.it.idx >= Len(rd.it.extents)

\* C21: iterating a ReadDir terminates: a caller that keeps calling next()
\* gets None after finitely many calls, whatever the blocks hold; idx never
\* decreases; and after None every later call returns None.
C21_IterationTerminates == rd.open ~> IterationOver

\* the parts of C21 that hold: idx never decreases, and None is final
C21_IdxNeverDecreases == [][rd'.it.idx >= rd.it.idx]_vars

C21_NoneIsFinal ==
    [][(rd.open /\ IterationOver /\ rd'.open) => rd'.last.kind = "none"]_vars

\* the last call was a seek the File cannot honour
SeekRefusable ==
    \/ f_last.op = "end" /\ (f_last.arg >= 0 \/ -f_last.arg > f_len)
    \/ f_last.op = "current" /\ f_last.arg < 0 /\ -f_last.arg > f_last.before

\* C22: a File::seek that cannot be honoured (End(o) with o >= 0, End(-k)
\* with k > len, Current(-k) with k > cursor) returns an error and leaves the
\* cursor where it was; the cursor never holds a value wrapped modulo 2^64.
C22_SeekRefusesOutOfRange ==
    SeekRefusable =>
        /\ ~f_last.ok
        /\ ~f_panicked
        /\ f_current = f_last.before

\* a block the walk reaches lies on a cycle of index records
RECURSIVE ReachesIn(_, _, _)
ReachesIn(from, to, n) ==
    /\ n > 0
    /\ ~img.graph[from].leaf
    /\ \E k \in 1..Len(img.graph[from].kids) :
          \/ img.graph[from].kids[k] = to
          \/ ReachesIn(img.graph[from].kids[k], to, n - 1)

CyclicImage ==
    \E b \in GraphBlocks :
        /\ ReachesIn(b, b, 2)
        /\ ~img.root.leaf
        /\ \E k \in 1..Len(img.root.kids) :
              img.root.kids[k] = b \/ ReachesIn(img.root.kids[k], b, 2)

\* C23: Inode::extents terminates on every image: the queue drains or an
\* error is returned after finitely many header reads, also when an index
\* record points at a block already visited.
C23_WalkTerminates == <>xt.called

\* on images without a cycle the walk returns and the bounds of the model
\* cut nothing
C23_AcyclicWalkReturns ==
    (xt.running /\ ~CyclicImage /\ xt.queue # <<>>) => ENABLED ExtentsTurn

\* C24: every entry ReadDir yields carries a non-zero inode number (records
\* with inode 0 that are no Tail are skipped), so path resolution never hands
\* 0 to get_inode and `ino - 1` never underflows.
C24_NoZeroInodeYielded ==
    /\ \A i \in 1..Len(rd.items) : rd.items[i].inode # 0
    /\ call.res.status # "panic"
    /\ call.res.err.kind = "BlockGroupDescriptorNotFound" => call.res.err.n < U64 - 1

====
